---- MODULE Spec2Model ----
(***************************************************************************)
(* Verification model of response-yolo's sectional solvers.                *)
(*                                                                         *)
(* Numbers.  The program computes in floating point.  The model computes   *)
(* on an integer grid: one strain unit is the finite-difference step ds =  *)
(* 1e-8 that every material's tangent() uses (DS), lengths are in mm,      *)
(* curvature is in strain units per mm, stresses, forces and moments are   *)
(* in the units that follow.  A division whose quotient is off the grid is *)
(* rounded to the nearest grid value (RoundDiv); the sections and          *)
(* parameters drawn in Init are chosen so that the material laws, the      *)
(* layer mid-heights, the centroid and the curvature increment are exact   *)
(* on the grid, so that the only rounded quantities are the Newton update  *)
(* of eps_0 and the neutral-axis height.                                   *)
(***************************************************************************)
EXTENDS Integers, Sequences, FiniteSets, TLC

\* ------------------------------------------------------------------ bounds

\* n_steps is drawn from 1..MaxNSteps
MaxNSteps == 3
\* the curvature increment max_curvature / n_steps is drawn from 1..MaxDPhi
MaxDPhi == 3
\* max_iter is drawn from 1..MaxIterCap
MaxIterCap == 3
\* the elevation y of shear_strain_profile is drawn from y_bot..y_bot + MaxProfileDepth
MaxProfileDepth == 6

\* ------------------------------------------------------- program constants

\* ds = 1.0e-8 of tangent(): the unit of the strain grid
DS == 1
\* the 0.1% offset strain 0.001 of PrestressingSteel._bilinear, in units of ds
YIELD_OFFSET == 100000
\* the stiffness floor 1e-6 of the Newton loop: on the grid |EA| < 1e-6 iff EA = 0
EA_FLOOR == 1
\* the curvature floor 1e-20 of the neutral-axis computation: on the grid phi = 0
PHI_FLOOR == 0
\* 0.0035 of the auto-detected max_curvature, in units of ds
AUTO_ECU == 350000
\* 1.0e-4, the auto-detected max_curvature of a section without height
AUTO_PHI == 10000
\* |gamma_xy| < 1e-14 of solve_mcft_node: on the grid gamma_xy = 0
GAMMA_FLOOR == 1
\* the bound 0.05 that solve_mcft_node keeps eps_y within, in units of ds
EPS_Y_BOUND == 5000000
\* max_step = 0.01 of solve_mcft_node's Newton update
MAX_STEP == 1000000
\* the step 0.001 solve_mcft_node takes where the residual is flat
FLAT_STEP == 100000
\* the factor 1e-6 of the relative finite-difference steps: |x| * 1e-6 is
\* |x| / DIFF_REL
DIFF_REL == 1000000
\* the floor 1e-10 of solve_mcft_node's finite-difference step deps_y: one
\* grid unit, the smallest step the grid resolves
DEPS_FLOOR == 1
\* |d_res| < 1e-12 of solve_mcft_node: on the grid d_res = 0
D_RES_FLOOR == 1
\* h_fd = 1e-7, the step of the condensed tangent, in units of ds
H_FD == 10
\* max_iter = 40, the default of solve_mcft_node
MAX_ITER_DEFAULT == 40
\* max_iter = 20 of _solve_for_sigma_x_tau
INNER_MAX_ITER == 20
\* tol = 1e-3 MPa, the default of solve_mcft_node and _solve_for_sigma_x_tau,
\* in the stress unit of the grid (1e-5 MPa)
TOL_DEFAULT == 100
\* the resolution of the unit circle: cos and sin are held in units of 1/TRIG
TRIG == 10000

\* the floor 1e-9 of integrate_stiffness_3x3's step h_e: one grid unit, the
\* smallest step the grid resolves
H_E == 1
\* the floor 1e-12 of integrate_stiffness_3x3's step h_p: one grid unit
H_P == 1
\* the floor 1e-9 of integrate_stiffness_3x3's step h_g: one grid unit
H_G == 1
\* |det| < 1e-20 of ShearAnalysis.run: on the grid det = 0
DET_FLOOR == 1
\* max_de = 0.001 of ShearAnalysis.run, in units of ds
MAX_DE == 100000
\* max_dp = 1e-4 of ShearAnalysis.run, in grid strain per unit of length
MAX_DP == 10000
\* max_iter = 30, the default of ShearAnalysis
SHEAR_MAX_ITER_DEFAULT == 30
\* |det| < 1e-30 of _solve_3x3: on the grid det = 0
DET3_FLOOR == 1

\* ---------------------------------------------------------------- numbers

Abs(x) == IF x < 0 THEN -x ELSE x

Max(a, b) == IF a >= b THEN a ELSE b

Min(a, b) == IF a <= b THEN a ELSE b

\* a / b in floating point, rounded to the nearest grid value (b # 0)
RoundDiv(a, b) ==
    LET n == IF b < 0 THEN -a ELSE a
        d == Abs(b)
    IN IF n >= 0 THEN (2 * n + d) \div (2 * d)
       ELSE -((2 * (-n) + d) \div (2 * d))

\* a * b / c in floating point for a, b >= 0 and c > 0, rounded to the nearest
\* grid value; the quotient is formed in two parts so that no intermediate
\* value leaves the range of the integers
MulDiv(a, b, c) == (a \div c) * b + RoundDiv((a % c) * b, c)

\* int(a / b): truncation toward zero (b # 0)
TruncDiv(a, b) ==
    LET n == IF b < 0 THEN -a ELSE a
        d == Abs(b)
    IN IF n >= 0 THEN n \div d ELSE -((-n) \div d)

\* Optional[...]: None, or a value
None == << >>

Some(v) == << v >>

Val(o) == o[1]

\* float('inf')
Inf == << >>

\* ---------------------------------------------------------------- Concrete
\* A Concrete is a record [fc, ec, Ec, ft, ecu, compression_model,
\* tension_model], every optional parameter given.  The sections drawn in Init
\* use the Hognestad compression law and the linear-cutoff or no-tension law,
\* which are polynomial; the other laws (a real power, a square root) are not
\* drawn.

\* Concrete.ecr: the cracking strain
Concrete_ecr(c) == RoundDiv(c.ft, c.Ec)

\* Concrete._hognestad: eps is a positive magnitude, the result a magnitude
\* (past the strain at which the descending branch reaches zero the result is
\* 0; it is returned without forming the product, which keeps every
\* intermediate value within the range of the integers)
Concrete_hognestad(c, eps) ==
    IF eps <= c.ec
    THEN RoundDiv(c.fc * (2 * eps * c.ec - eps * eps), c.ec * c.ec)
    ELSE IF 3 * (eps - c.ec) >= 20 * (c.ecu - c.ec) THEN 0
    ELSE Max(0, c.fc - RoundDiv(3 * c.fc * (eps - c.ec), 20 * (c.ecu - c.ec)))

\* Concrete._compression_stress: compressive stress as a negative value
Concrete_compression_stress(c, eps) ==
    CASE c.compression_model = "hognestad" -> -Concrete_hognestad(c, eps)

\* Concrete._tension_stress: tensile stress as a positive value
Concrete_tension_stress(c, eps) ==
    IF c.tension_model = "no_tension" THEN 0
    ELSE IF eps <= Concrete_ecr(c) THEN c.Ec * eps
    ELSE CASE c.tension_model = "linear_cutoff" -> 0

\* Concrete.stress
Concrete_stress(c, strain) ==
    IF strain < -c.ecu THEN 0
    ELSE IF strain < 0 THEN Concrete_compression_stress(c, -strain)
    ELSE IF strain = 0 THEN 0
    ELSE Concrete_tension_stress(c, strain)

\* Concrete.tangent: central difference over ds
Concrete_tangent(c, strain) ==
    LET s1 == Concrete_stress(c, strain - DS)
        s2 == Concrete_stress(c, strain + DS)
    IN RoundDiv(s2 - s1, 2 * DS)

\* --------------------------------------------------------- ReinforcingSteel
\* A ReinforcingSteel is a record [fy, Es, fu, esh, esu, model].

\* ReinforcingSteel.ey: the yield strain
ReinforcingSteel_ey(m) == RoundDiv(m.fy, m.Es)

\* ReinforcingSteel._bilinear
ReinforcingSteel_bilinear(m, eps) ==
    IF eps <= ReinforcingSteel_ey(m) THEN m.Es * eps
    ELSE IF m.esu > ReinforcingSteel_ey(m)
         THEN m.fy + RoundDiv((m.fu - m.fy) * (eps - ReinforcingSteel_ey(m)),
                              m.esu - ReinforcingSteel_ey(m))
         ELSE m.fy

\* ReinforcingSteel._trilinear
ReinforcingSteel_trilinear(m, eps) ==
    IF eps <= ReinforcingSteel_ey(m) THEN m.Es * eps
    ELSE IF eps <= m.esh THEN m.fy
    ELSE IF m.esu <= m.esh THEN m.fy
    ELSE m.fy + RoundDiv((m.fu - m.fy)
                           * (2 * (eps - m.esh) * (m.esu - m.esh)
                              - (eps - m.esh) * (eps - m.esh)),
                         (m.esu - m.esh) * (m.esu - m.esh))

\* ReinforcingSteel.stress: symmetric in tension and compression
ReinforcingSteel_stress(m, strain) ==
    LET eps == Abs(strain)
        sign == IF strain >= 0 THEN 1 ELSE -1
    IN IF eps >= m.esu THEN 0
       ELSE IF m.model = "bilinear" THEN sign * ReinforcingSteel_bilinear(m, eps)
       ELSE sign * ReinforcingSteel_trilinear(m, eps)

\* ReinforcingSteel.tangent: central difference over ds
ReinforcingSteel_tangent(m, strain) ==
    RoundDiv(ReinforcingSteel_stress(m, strain + DS)
               - ReinforcingSteel_stress(m, strain - DS), 2 * DS)

\* -------------------------------------------------------- PrestressingSteel
\* A PrestressingSteel is a record [fpu, Ep, fpy, epu, model]; the tendons
\* drawn in Init use the bilinear law (the power formula is a real power).

\* PrestressingSteel._bilinear
PrestressingSteel_bilinear(m, eps) ==
    LET epy == RoundDiv(m.fpy, m.Ep) + YIELD_OFFSET
    IN IF eps <= epy THEN m.Ep * eps
       ELSE IF m.epu > epy
            THEN m.fpy + RoundDiv((m.fpu - m.fpy) * (eps - epy), m.epu - epy)
            ELSE m.fpy

\* PrestressingSteel.stress: tension only
PrestressingSteel_stress(m, strain) ==
    IF strain <= 0 THEN 0
    ELSE IF strain >= m.epu THEN 0
    ELSE CASE m.model = "bilinear" -> PrestressingSteel_bilinear(m, strain)

\* PrestressingSteel.tangent: central difference over ds
PrestressingSteel_tangent(m, strain) ==
    RoundDiv(PrestressingSteel_stress(m, strain + DS)
               - PrestressingSteel_stress(m, strain - DS), 2 * DS)

\* ------------------------------------------------------------ CrossSection
\* A CrossSection is a record [concrete_layers, rebars, tendons] of sequences:
\* a ConcreteLayer is [y_bot, y_top, width, material, rho_y, stirrup_material],
\* a RebarBar is
\* [y, area, material], a Tendon is [y, area, material, prestrain].

\* ConcreteLayer.y_mid
y_mid(lay) == RoundDiv(lay.y_bot + lay.y_top, 2)

\* ConcreteLayer.thickness
thickness(lay) == lay.y_top - lay.y_bot

\* ConcreteLayer.area
area(lay) == lay.width * thickness(lay)

\* sum(f(x) for x in seq)
RECURSIVE SumSeq(_, _, _)
SumSeq(f(_), seq, i) ==
    IF i > Len(seq) THEN 0 ELSE f(seq[i]) + SumSeq(f, seq, i + 1)

\* CrossSection.height
height(section) ==
    IF section.concrete_layers = << >> THEN 0
    ELSE section.concrete_layers[Len(section.concrete_layers)].y_top
           - section.concrete_layers[1].y_bot

\* CrossSection.gross_area
gross_area(section) == SumSeq(area, section.concrete_layers, 1)

\* CrossSection.centroid_y
centroid_y(section) ==
    LET Ay(lay) == area(lay) * y_mid(lay)
        total_Ay == SumSeq(Ay, section.concrete_layers, 1)
        total_A == gross_area(section)
    IN IF total_A = 0 THEN 0 ELSE RoundDiv(total_Ay, total_A)

\* CrossSection.integrate_forces: <<N, M>> of the strain profile
\* eps(y) = eps_0 - phi * (y - y_ref)
integrate_forces(section, eps_0, phi, y_ref) ==
    LET cf(lay) == Concrete_stress(lay.material,
                                   eps_0 - phi * (y_mid(lay) - y_ref)) * area(lay)
        cm(lay) == cf(lay) * (y_mid(lay) - y_ref)
        bf(bar) == ReinforcingSteel_stress(bar.material,
                                           eps_0 - phi * (bar.y - y_ref)) * bar.area
        bm(bar) == bf(bar) * (bar.y - y_ref)
        tf(t) == PrestressingSteel_stress(t.material,
                       eps_0 - phi * (t.y - y_ref) + t.prestrain) * t.area
        tm(t) == tf(t) * (t.y - y_ref)
    IN << SumSeq(cf, section.concrete_layers, 1) + SumSeq(bf, section.rebars, 1)
            + SumSeq(tf, section.tendons, 1),
          -(SumSeq(cm, section.concrete_layers, 1) + SumSeq(bm, section.rebars, 1)
            + SumSeq(tm, section.tendons, 1)) >>

\* CrossSection.integrate_stiffness: <<EA, ES, EI>>
integrate_stiffness(section, eps_0, phi, y_ref) ==
    LET ca(lay) == Concrete_tangent(lay.material,
                                    eps_0 - phi * (y_mid(lay) - y_ref)) * area(lay)
        cs(lay) == ca(lay) * (y_mid(lay) - y_ref)
        ci(lay) == cs(lay) * (y_mid(lay) - y_ref)
        ba(bar) == ReinforcingSteel_tangent(bar.material,
                                            eps_0 - phi * (bar.y - y_ref)) * bar.area
        bs(bar) == ba(bar) * (bar.y - y_ref)
        bi(bar) == bs(bar) * (bar.y - y_ref)
        ta(t) == PrestressingSteel_tangent(t.material,
                       eps_0 - phi * (t.y - y_ref) + t.prestrain) * t.area
        ts(t) == ta(t) * (t.y - y_ref)
        ti(t) == ts(t) * (t.y - y_ref)
    IN << SumSeq(ca, section.concrete_layers, 1) + SumSeq(ba, section.rebars, 1)
            + SumSeq(ta, section.tendons, 1),
          -(SumSeq(cs, section.concrete_layers, 1) + SumSeq(bs, section.rebars, 1)
            + SumSeq(ts, section.tendons, 1)),
          SumSeq(ci, section.concrete_layers, 1) + SumSeq(bi, section.rebars, 1)
            + SumSeq(ti, section.tendons, 1) >>

\* -------------------------------------------------- MomentCurvatureAnalysis

\* MPhiPoint(...)
MPhiPoint(curvature, moment, eps_0, neutral_axis_y, converged) ==
    [curvature |-> curvature, moment |-> moment, eps_0 |-> eps_0,
     neutral_axis_y |-> neutral_axis_y, converged |-> converged]

\* MPhiResult(axial_load=..., y_ref=...)
MPhiResult(axial_load, y_ref) ==
    [points |-> << >>, axial_load |-> axial_load, y_ref |-> y_ref,
     cracking_index |-> None, yield_index |-> None, ultimate_index |-> None,
     failure_reason |-> ""]

\* MomentCurvatureAnalysis.__init__: max_curvature, curvature_step and y_ref
\* are Optional
MomentCurvatureAnalysis(section, axial_load, max_curvature, n_steps, curvature_step, y_ref, tol_force, max_iter) ==
    [section |-> section,
     axial_load |-> axial_load,
     n_steps |-> n_steps,
     curvature_step |-> curvature_step,
     tol_force |-> tol_force,
     max_iter |-> max_iter,
     y_ref |-> IF y_ref # None THEN Val(y_ref) ELSE centroid_y(section),
     max_curvature |->
        IF max_curvature # None THEN Val(max_curvature)
        ELSE IF height(section) > 0
             THEN RoundDiv(10 * AUTO_ECU, height(section))
             ELSE AUTO_PHI]

\* the curvatures in descending order
curvature_vector_descending(a) ==
    IF a.curvature_step # None
    THEN LET n == TruncDiv(a.max_curvature, Val(a.curvature_step)) + 1
         IN [i \in 1..n |-> (n + 1 - i) * Val(a.curvature_step)]
    ELSE LET dphi == RoundDiv(a.max_curvature, a.n_steps)
         IN [i \in 1..a.n_steps |-> (a.n_steps + 1 - i) * dphi]

\* the curvatures counted from 0: range(n) for range(1, n + 1)
curvature_vector_from_zero(a) ==
    IF a.curvature_step # None
    THEN LET n == TruncDiv(a.max_curvature, Val(a.curvature_step)) + 1
         IN [i \in 1..n |-> (i - 1) * Val(a.curvature_step)]
    ELSE LET dphi == RoundDiv(a.max_curvature, a.n_steps)
         IN [i \in 1..a.n_steps |-> (i - 1) * dphi]

\* run, "Build curvature vector": the list phis
curvature_vector(a) ==
    IF a.curvature_step # None
    THEN LET n == TruncDiv(a.max_curvature, Val(a.curvature_step)) + 1
         IN [i \in 1..n |-> i * Val(a.curvature_step)]
    ELSE LET dphi == RoundDiv(a.max_curvature, a.n_steps)
         IN [i \in 1..a.n_steps |-> i * dphi]

\* the convergence test without abs()
residual_converged_signed(a, residual) == residual < a.tol_force

\* run, the Newton loop's convergence test on residual = N - axial_load
residual_converged(a, residual) == Abs(residual) < a.tol_force

\* run, the Newton loop's test that the section has lost all stiffness
stiffness_lost(EA) == Abs(EA) < EA_FLOOR

\* _check_cracking: some concrete layer's tensile strain exceeds ecr
check_cracking(a, eps_0, phi) ==
    \E j \in 1..Len(a.section.concrete_layers) :
        LET lay == a.section.concrete_layers[j]
        IN eps_0 - phi * (y_mid(lay) - a.y_ref) > Concrete_ecr(lay.material)

\* _check_yield: some rebar has yielded
check_yield(a, eps_0, phi) ==
    \E j \in 1..Len(a.section.rebars) :
        LET bar == a.section.rebars[j]
        IN Abs(eps_0 - phi * (bar.y - a.y_ref)) >= ReinforcingSteel_ey(bar.material)

\* _check_failure, the three criteria
concrete_crushed(a, eps_0, phi) ==
    \E j \in 1..Len(a.section.concrete_layers) :
        LET lay == a.section.concrete_layers[j]
        IN eps_0 - phi * (y_mid(lay) - a.y_ref) < -lay.material.ecu

rebar_fractured(a, eps_0, phi) ==
    \E j \in 1..Len(a.section.rebars) :
        LET bar == a.section.rebars[j]
        IN Abs(eps_0 - phi * (bar.y - a.y_ref)) >= bar.material.esu

tendon_ruptured(a, eps_0, phi) ==
    \E j \in 1..Len(a.section.tendons) :
        LET t == a.section.tendons[j]
        IN eps_0 - phi * (t.y - a.y_ref) + t.prestrain >= t.material.epu

\* the criteria tested in another order: the bars before the concrete
check_failure_bars_first(a, eps_0, phi) ==
    IF rebar_fractured(a, eps_0, phi) THEN "rebar_fracture"
    ELSE IF concrete_crushed(a, eps_0, phi) THEN "concrete_crushing"
    ELSE IF tendon_ruptured(a, eps_0, phi) THEN "tendon_rupture"
    ELSE ""

\* _check_failure: the failure reason, or the empty string
check_failure(a, eps_0, phi) ==
    IF concrete_crushed(a, eps_0, phi) THEN "concrete_crushing"
    ELSE IF rebar_fractured(a, eps_0, phi) THEN "rebar_fracture"
    ELSE IF tendon_ruptured(a, eps_0, phi) THEN "tendon_rupture"
    ELSE ""

\* no break at all: the sweep always runs to the last curvature
sweep_never_ends(failure, conv) == FALSE

\* a missing break after the convergence failure: only a physical failure
\* ends the sweep
sweep_ends_failure_only(failure, conv) == failure # ""

\* a missing break after the physical failure: only a non-converged step ends
\* the sweep
sweep_ends_convergence_only(failure, conv) == ~conv

\* run, "Failure detection", the two break statements: whether the step ends
\* the sweep
sweep_ends(failure, conv) == failure # "" \/ ~conv

\* the two tests in the other order: convergence failure before the criteria
failure_reason_convergence_first(old, failure, conv) ==
    IF ~conv THEN "convergence_failure"
    ELSE IF failure # "" THEN failure
    ELSE old

\* run, "Failure detection", the two assignments: the failure_reason after
\* the step
failure_reason_after(old, failure, conv) ==
    IF failure # "" THEN failure
    ELSE IF ~conv THEN "convergence_failure"
    ELSE old

\* the ultimate point taken to be the point before the one that failed
ultimate_index_before_failure(old, failure, conv, last) ==
    IF failure # "" \/ ~conv THEN Some(last - 1) ELSE old

\* run, "Failure detection", the two assignments: the ultimate_index after
\* the step that recorded the point of index last
ultimate_index_after(old, failure, conv, last) ==
    IF failure # "" \/ ~conv THEN Some(last) ELSE old

\* the guard on the first occurrence left out: the event fires whenever the
\* criterion holds
event_fires_again(index, prev, hit) == hit

\* run, "Cracking detection" / "Yield detection": whether the event fires at
\* this step (index: the index field, prev: the prev_ flag, hit: the criterion)
event_fires(index, prev, hit) == index = None /\ ~prev /\ hit

\* ---------------------------------------------------------- MCFT node solver
\* solve_mcft_node and its helpers.  Strains are on the grid of ds; the shear
\* strain gamma_xy is in the same unit.  A reinforcement ratio rho is a whole
\* number (the materials drawn below have concrete and steel strengths of the
\* same order, so that rho = 1 gives the stirrups the weight a ratio of about
\* 0.5% has for real materials).

\* math.sqrt, rounded to the nearest grid value (0 <= n < 2^31): the search
\* for the floor of the root in lo..hi (lo * lo <= n), the range cut in 16
\* parts of width w at a time
RECURSIVE SqrtSearch(_, _, _)
SqrtSearch(n, lo, hi) ==
    IF lo >= hi THEN lo
    ELSE LET w == (hi - lo) \div 16 + 1
             k == CHOOSE k \in 0..15 :
                      /\ lo + w * k <= hi
                      /\ (lo + w * k) * (lo + w * k) <= n
                      /\ \/ lo + w * (k + 1) > hi
                         \/ (lo + w * (k + 1)) * (lo + w * (k + 1)) > n
         IN SqrtSearch(n, lo + w * k, Min(lo + w * k + w - 1, hi))

Sqrt(n) ==
    LET f == SqrtSearch(n, 0, 46340)
    IN IF n - f * f > f THEN f + 1 ELSE f

\* the factor by which a pair of strains is scaled down before it is squared,
\* so that the sum of the squares stays within the range of the integers (1 for
\* every strain up to 30000 grid units: no scaling)
Scale(a, b) == Max(Abs(a), Abs(b)) \div 30000 + 1

\* the angle theta = 0.0
ThetaZero == [cos2 |-> TRIG, sin2 |-> 0]

\* Mohr's circle with the angle taken from the magnitude of gamma_xy
principal_strains_unsigned(eps_x, eps_y, gamma_xy) ==
    LET d == eps_x - eps_y
        s == Scale(d, gamma_xy)
        dd == TruncDiv(d, s)
        gg == TruncDiv(Abs(gamma_xy), s)
        r == Sqrt(dd * dd + gg * gg)
        R2 == IF gg = 0 THEN Abs(d) ELSE s * r
    IN [eps_1 |-> RoundDiv(eps_x + eps_y + R2, 2),
        eps_2 |-> RoundDiv(eps_x + eps_y - R2, 2),
        theta |-> IF d = 0 /\ gamma_xy = 0 THEN ThetaZero
                  ELSE [cos2 |-> RoundDiv(TRIG * dd, r),
                        sin2 |-> RoundDiv(TRIG * gg, r)]]

\* _principal_strains: Mohr's circle.  With d = eps_x - eps_y and
\* R2 = sqrt(d^2 + gamma_xy^2) = 2R, eps_1 and eps_2 are (eps_x + eps_y +- R2)/2.
\* The angle theta = 0.5 * atan2(gamma_xy, d) is kept as the pair
\* cos(2 theta) = d / R2, sin(2 theta) = gamma_xy / R2 in units of 1 / TRIG,
\* from which cos^2, sin^2 and cos * sin of theta follow exactly.  (Where
\* gamma_xy vanishes against d, sqrt(d * d) is |d|.)
principal_strains(eps_x, eps_y, gamma_xy) ==
    LET d == eps_x - eps_y
        s == Scale(d, gamma_xy)
        dd == TruncDiv(d, s)
        gg == TruncDiv(gamma_xy, s)
        r == Sqrt(dd * dd + gg * gg)
        R2 == IF gg = 0 THEN Abs(d) ELSE s * r
    IN [eps_1 |-> RoundDiv(eps_x + eps_y + R2, 2),
        eps_2 |-> RoundDiv(eps_x + eps_y - R2, 2),
        theta |-> IF d = 0 /\ gamma_xy = 0 THEN ThetaZero
                  ELSE [cos2 |-> RoundDiv(TRIG * dd, r),
                        sin2 |-> RoundDiv(TRIG * gg, r)]]

\* Concrete._mcft_tension, the tension stiffening ft / (1 + sqrt(500 * eps))
\* that _concrete_stresses_xy applies past cracking: with eps in units of
\* 1e-8, 1000 * sqrt(500 * eps) = sqrt(5 * eps)
Concrete_mcft_tension(c, eps) == RoundDiv(1000 * c.ft, 1000 + Sqrt(5 * eps))

\* Concrete.compression_stress_softened: beta = 1 / (0.8 + 170 * eps_1),
\* limited to [0.15, 1.0], here in percent; the result is a magnitude
Concrete_compression_stress_softened(c, eps_magnitude, eps_1) ==
    LET e1 == Max(eps_1, 0)
        beta == Max(Min(RoundDiv(100000000, 800000 + RoundDiv(17 * e1, 10)),
                        100), 15)
        base == CASE c.compression_model = "hognestad" ->
                    Concrete_hognestad(c, MulDiv(eps_magnitude, 100, beta))
    IN RoundDiv(beta * base, 100)

\* the principal stresses of _concrete_stresses_xy
principal_tension(concrete, eps_1) ==
    IF eps_1 > 0
    THEN IF eps_1 <= Concrete_ecr(concrete) THEN concrete.Ec * eps_1
         ELSE Concrete_mcft_tension(concrete, eps_1)
    ELSE 0

principal_compression(concrete, eps_1, eps_2) ==
    IF eps_2 < 0
    THEN -Concrete_compression_stress_softened(concrete, Abs(eps_2),
                                               Max(eps_1, 0))
    ELSE IF eps_2 <= Concrete_ecr(concrete) THEN concrete.Ec * eps_2
    ELSE Concrete_mcft_tension(concrete, eps_2)

\* _concrete_stresses_xy, "Transform to x-y via Mohr's circle", with
\* cos^2 = (1 + cos 2theta) / 2, sin^2 = (1 - cos 2theta) / 2 and
\* cos * sin = sin 2theta / 2
mohr_transform(fc1, fc2, theta) ==
    [sigma_cx |-> RoundDiv(fc1 * (TRIG + theta.cos2)
                             + fc2 * (TRIG - theta.cos2), 2 * TRIG),
     sigma_cy |-> RoundDiv(fc1 * (TRIG - theta.cos2)
                             + fc2 * (TRIG + theta.cos2), 2 * TRIG),
     tau_cxy |-> RoundDiv((fc1 - fc2) * theta.sin2, 2 * TRIG),
     fc1 |-> fc1,
     fc2 |-> fc2]

\* _concrete_stresses_xy: the principal stresses, turned to the x-y frame
concrete_stresses_xy(concrete, eps_1, eps_2, theta) ==
    mohr_transform(principal_tension(concrete, eps_1),
                   principal_compression(concrete, eps_1, eps_2), theta)

\* _evaluate_transverse_residual: sigma_y_total of a trial eps_y, with the
\* stresses and strains it was computed from
\* (p: what _principal_strains returned, c: what _concrete_stresses_xy
\* returned, fy_steel: the transverse steel contribution)
transverse_residual(p, c, fy_steel) ==
    [sigma_y_total |-> c.sigma_cy + fy_steel,
     sigma_cx |-> c.sigma_cx, sigma_cy |-> c.sigma_cy,
     tau_cxy |-> c.tau_cxy, fc1 |-> c.fc1, fc2 |-> c.fc2,
     eps_1 |-> p.eps_1, eps_2 |-> p.eps_2, theta |-> p.theta]

stresses_at(p, concrete, fy_steel) ==
    transverse_residual(p, concrete_stresses_xy(concrete, p.eps_1, p.eps_2,
                                                p.theta), fy_steel)

evaluate_transverse_residual(eps_x, eps_y, gamma_xy, concrete, rho_y, stirrup_material, rho_x, long_material) ==
    stresses_at(principal_strains(eps_x, eps_y, gamma_xy), concrete,
                IF rho_y > 0 /\ stirrup_material # None
                THEN rho_y * ReinforcingSteel_stress(Val(stirrup_material),
                                                     eps_y)
                ELSE 0)

\* MCFTState(...)
MCFTState(eps_x, eps_y, gamma_xy, eps_1, eps_2, theta, sigma_x, sigma_y, tau_xy, fc1, fc2, tangent_xx, tangent_xg, tangent_gx, tangent_gg, converged) ==
    [eps_x |-> eps_x, eps_y |-> eps_y, gamma_xy |-> gamma_xy,
     eps_1 |-> eps_1, eps_2 |-> eps_2, theta |-> theta,
     sigma_x |-> sigma_x, sigma_y |-> sigma_y, tau_xy |-> tau_xy,
     fc1 |-> fc1, fc2 |-> fc2,
     tangent_xx |-> tangent_xx, tangent_xg |-> tangent_xg,
     tangent_gx |-> tangent_gx, tangent_gg |-> tangent_gg,
     converged |-> converged]

\* the arguments of a call of solve_mcft_node or _solve_for_sigma_x_tau
NodeArgs(eps_x, gamma_xy, concrete, rho_y, stirrup_material, rho_x, long_material, max_iter, tol) ==
    [eps_x |-> eps_x, gamma_xy |-> gamma_xy, concrete |-> concrete,
     rho_y |-> rho_y, stirrup_material |-> stirrup_material,
     rho_x |-> rho_x, long_material |-> long_material,
     max_iter |-> max_iter, tol |-> tol]

\* the evaluation of _evaluate_transverse_residual at a trial eps_y
residual_at(a, eps_y) ==
    evaluate_transverse_residual(a.eps_x, eps_y, a.gamma_xy, a.concrete,
                                 a.rho_y, a.stirrup_material,
                                 a.rho_x, a.long_material)

\* the smeared longitudinal steel's share of sigma_x and of the tangent
smeared_stress(a) ==
    IF a.rho_x > 0 /\ a.long_material # None
    THEN a.rho_x * ReinforcingSteel_stress(Val(a.long_material), a.eps_x)
    ELSE 0

smeared_tangent(a) ==
    IF a.rho_x > 0 /\ a.long_material # None
    THEN a.rho_x * ReinforcingSteel_tangent(Val(a.long_material), a.eps_x)
    ELSE 0

\* the uniaxial state computed from the MCFT principal stresses (tension
\* stiffening past cracking) instead of the plain material law
uniaxial_state_stiffened(a) ==
    LET sigma_cx == principal_tension(a.concrete, a.eps_x)
                      + principal_compression(a.concrete, 0, Min(a.eps_x, 0))
        Et == Concrete_tangent(a.concrete, a.eps_x) + smeared_tangent(a)
    IN MCFTState(a.eps_x, 0, 0, Max(a.eps_x, 0), Min(a.eps_x, 0), ThetaZero,
                 sigma_cx + smeared_stress(a), 0, 0,
                 Max(sigma_cx, 0), Min(sigma_cx, 0), Et, 0, 0, 0, TRUE)

\* solve_mcft_node, "Special case: no shear": the uniaxial state
uniaxial_state(a) ==
    LET sigma_cx == Concrete_stress(a.concrete, a.eps_x)
        Et == Concrete_tangent(a.concrete, a.eps_x) + smeared_tangent(a)
    IN MCFTState(a.eps_x, 0, 0, Max(a.eps_x, 0), Min(a.eps_x, 0), ThetaZero,
                 sigma_cx + smeared_stress(a), 0, 0,
                 Max(sigma_cx, 0), Min(sigma_cx, 0), Et, 0, 0, 0, TRUE)

\* the convergence test without abs()
node_converged_signed(a, res) == res < a.tol

\* the convergence test on the transverse residual
node_converged(a, res) == Abs(res) < a.tol

\* the step of the forward difference in eps_y
deps_y_of(eps_y) == Max(RoundDiv(Abs(eps_y), DIFF_REL), DEPS_FLOOR)

\* the numerical derivative d(sigma_y)/d(eps_y) by a forward difference
\* (res: the residual at eps_y, which the loop has computed already)
d_res_at(a, eps_y, res) ==
    RoundDiv(residual_at(a, eps_y + deps_y_of(eps_y)).sigma_y_total - res,
             deps_y_of(eps_y))

\* the tangent is flat
flat_tangent(d_res) == Abs(d_res) < D_RES_FLOOR

\* the step taken where the tangent is flat (the loop continues at once)
flat_step(res, eps_y) == eps_y - FLAT_STEP * (IF res > 0 THEN 1 ELSE -1)

\* "Limit step size"
limit_step(delta) ==
    IF Abs(delta) > MAX_STEP THEN MAX_STEP * (IF delta > 0 THEN 1 ELSE -1)
    ELSE delta

\* the Newton step: the limited step size, then eps_y kept bounded
newton_step(res, d_res, eps_y) ==
    Max(-EPS_Y_BOUND,
        Min(EPS_Y_BOUND, eps_y + limit_step(RoundDiv(-res, d_res))))

\* one pass of solve_mcft_node's loop that does not leave it: the next eps_y
\* from the residual and its derivative
update_eps_y(res, d_res, eps_y) ==
    IF flat_tangent(d_res) THEN flat_step(res, eps_y)
    ELSE newton_step(res, d_res, eps_y)

next_eps_y(a, eps_y, res) == update_eps_y(res, d_res_at(a, eps_y, res), eps_y)

\* one pass of solve_mcft_node's loop "for _it in range(max_iter)" at eps_y,
\* once the residual res there is computed: eps_y and converged after it (the
\* break leaves eps_y as it is)
mcft_pass(a, eps_y, res) ==
    IF node_converged(a, res) THEN [eps_y |-> eps_y, converged |-> TRUE]
    ELSE [eps_y |-> next_eps_y(a, eps_y, res), converged |-> FALSE]

\* solve_mcft_node's loop, n passes of it still to run from the state s: the
\* eps_y it is left with, and whether it converged (the break ends the passes;
\* n passes are the first n \div 2 of them and then the rest)
RECURSIVE mcft_iterate(_, _, _)
mcft_iterate(a, s, n) ==
    IF s.converged \/ n <= 0 THEN s
    ELSE IF n = 1
         THEN mcft_pass(a, s.eps_y, residual_at(a, s.eps_y).sigma_y_total)
         ELSE mcft_iterate(a, mcft_iterate(a, s, n \div 2), n - n \div 2)

\* one pass of _solve_for_sigma_x_tau's loop at eps_y: eps_y after it, the
\* evaluation out its locals sigma_cx and tau_cxy hold, and whether a break
\* has left the loop (inner_pass: the pass, once the evaluation here at eps_y
\* is computed; inner_update: its end, once d_res is computed)
inner_update(a, eps_y, here, d_res) ==
    IF flat_tangent(d_res) THEN [eps_y |-> eps_y, out |-> here, left |-> TRUE]
    ELSE [eps_y |-> newton_step(here.sigma_y_total, d_res, eps_y),
          out |-> here, left |-> FALSE]

inner_pass(a, eps_y, here) ==
    IF node_converged(a, here.sigma_y_total)
    THEN [eps_y |-> eps_y, out |-> here, left |-> TRUE]
    ELSE inner_update(a, eps_y, here, d_res_at(a, eps_y, here.sigma_y_total))

\* _solve_for_sigma_x_tau's loop, n passes of it still to run from the state
\* s (n passes are the first n \div 2 of them and then the rest)
RECURSIVE inner_iterate(_, _, _)
inner_iterate(a, s, n) ==
    IF s.left \/ n <= 0 THEN s
    ELSE IF n = 1 THEN inner_pass(a, s.eps_y, residual_at(a, s.eps_y))
         ELSE inner_iterate(a, inner_iterate(a, s, n \div 2), n - n \div 2)

\* _solve_for_sigma_x_tau, its return statement
sigma_x_tau(a, out) == << out.sigma_cx + smeared_stress(a), out.tau_cxy >>

\* _solve_for_sigma_x_tau with the arguments a
inner_solve(a, eps_y_init) ==
    sigma_x_tau(a, inner_iterate(a, [eps_y |-> eps_y_init,
                                     out |-> residual_at(a, eps_y_init),
                                     left |-> FALSE], a.max_iter).out)

\* _solve_for_sigma_x_tau: <<sigma_x_total, tau_xy>> (max_iter = 20 and
\* tol = 1e-3 are its defaults, which solve_mcft_node does not override)
solve_for_sigma_x_tau(eps_x, gamma_xy, concrete, rho_y, stirrup_material, rho_x, long_material, eps_y_init) ==
    inner_solve(NodeArgs(eps_x, gamma_xy, concrete, rho_y, stirrup_material,
                         rho_x, long_material, INNER_MAX_ITER, TOL_DEFAULT),
                eps_y_init)

\* solve_mcft_node, lines 288-312: the condensed tangent by finite differences
\* and the returned state (f: the final evaluation, state_px and state_pg: the
\* perturbed solutions)
returned_state(a, eps_y, converged, f, sigma_x_total, state_px, state_pg) ==
    MCFTState(a.eps_x, eps_y, a.gamma_xy, f.eps_1, f.eps_2, f.theta,
              sigma_x_total, f.sigma_y_total, f.tau_cxy, f.fc1, f.fc2,
              RoundDiv(state_px[1] - sigma_x_total, H_FD),
              RoundDiv(state_pg[1] - sigma_x_total, H_FD),
              RoundDiv(state_px[2] - f.tau_cxy, H_FD),
              RoundDiv(state_pg[2] - f.tau_cxy, H_FD),
              converged)

\* solve_mcft_node, lines 275-286: the perturbed solutions
perturbed_state(a, eps_y, converged, f) ==
    returned_state(a, eps_y, converged, f, f.sigma_cx + smeared_stress(a),
                   solve_for_sigma_x_tau(a.eps_x + H_FD, a.gamma_xy,
                       a.concrete, a.rho_y, a.stirrup_material,
                       a.rho_x, a.long_material, eps_y),
                   solve_for_sigma_x_tau(a.eps_x, a.gamma_xy + H_FD,
                       a.concrete, a.rho_y, a.stirrup_material,
                       a.rho_x, a.long_material, eps_y))

\* solve_mcft_node, lines 267-312: the final evaluation at eps_y, the
\* condensed tangent, and the returned state
final_state(a, eps_y, converged) ==
    perturbed_state(a, eps_y, converged, residual_at(a, eps_y))

\* the state solve_mcft_node returns once its loop is left
state_after(a, out) == final_state(a, out.eps_y, out.converged)

\* solve_mcft_node
solve_mcft_node(eps_x, gamma_xy, concrete, rho_y, stirrup_material, rho_x, long_material, max_iter, tol) ==
    LET a == NodeArgs(eps_x, gamma_xy, concrete, rho_y, stirrup_material,
                      rho_x, long_material, max_iter, tol)
    IN IF Abs(gamma_xy) < GAMMA_FLOOR THEN uniaxial_state(a)
       ELSE state_after(a, mcft_iterate(a, [eps_y |-> RoundDiv(eps_x, 2),
                                            converged |-> FALSE], max_iter))

\* ----------------------------------------------------------- shear analysis
\* CrossSection's biaxial integration and ShearAnalysis.  The average shear
\* strain gamma_xy0 is on the strain grid, the curvature phi in grid strain
\* per unit of length.

\* CrossSection.y_bottom
y_bottom(section) ==
    IF section.concrete_layers = << >> THEN 0
    ELSE section.concrete_layers[1].y_bot

\* CrossSection.y_top
y_top(section) ==
    IF section.concrete_layers = << >> THEN 0
    ELSE section.concrete_layers[Len(section.concrete_layers)].y_top

\* ConcreteLayer with the stirrups of set_stirrups
with_stirrups(lay, Av, s, material) ==
    [lay EXCEPT !.rho_y = RoundDiv(Av, lay.width * s),
                !.stirrup_material = Some(material)]

\* CrossSection.set_stirrups(Av, s, material), y_bot and y_top left at None:
\* every concrete layer gets rho_y = Av / (width * s) and the material
set_stirrups(section, Av, s, material) ==
    [section EXCEPT !.concrete_layers =
        [j \in 1..Len(section.concrete_layers) |->
            with_stirrups(section.concrete_layers[j], Av, s, material)]]

\* the parabola with the peak 1.0 instead of 1.5
shear_strain_profile_unit_peak(y, yb, yt) ==
    IF yt - yb <= 0 THEN [num |-> 1, den |-> 1]
    ELSE [num |-> (yt - yb) * (yt - yb)
                    - (2 * y - (yb + yt)) * (2 * y - (yb + yt)),
          den |-> (yt - yb) * (yt - yb)]

\* CrossSection.shear_strain_profile: s(y) = 1.5 * (1 - eta^2) with
\* eta = 2 * (y - y_mid) / h, as the fraction num / den = 3 (h^2 - e^2) / (2 h^2)
\* where e = 2 * y - (y_bot + y_top) = eta * h (yb, yt: y_bot, y_top); 1.0
\* for a section without height
shear_strain_profile(y, yb, yt) ==
    IF yt - yb <= 0 THEN [num |-> 1, den |-> 1]
    ELSE [num |-> 3 * ((yt - yb) * (yt - yb)
                         - (2 * y - (yb + yt)) * (2 * y - (yb + yt))),
          den |-> 2 * (yt - yb) * (yt - yb)]

\* gamma = gamma_xy0 * s
profile_times(gamma_xy0, s) == RoundDiv(gamma_xy0 * s.num, s.den)

\* the sum of two triples (N, M, V)
add_forces(a, b) == << a[1] + b[1], a[2] + b[2], a[3] + b[3] >>

\* the moment of a layer taken with the sign of a hogging moment
layer_forces_hogging(lay, dy, state) ==
    << state.sigma_x * area(lay), state.sigma_x * area(lay) * dy,
       state.tau_xy * area(lay) >>

\* integrate_forces_shear, one concrete layer's share of (N, M, V) from the
\* state its MCFT node is in
layer_forces(lay, dy, state) ==
    << state.sigma_x * area(lay), -(state.sigma_x * area(lay) * dy),
       state.tau_xy * area(lay) >>

\* integrate_forces_shear, the MCFT node of one concrete layer
layer_state(lay, eps_0, phi, gamma_xy0, y_ref, yb, yt) ==
    solve_mcft_node(eps_0 - phi * (y_mid(lay) - y_ref),
                    profile_times(gamma_xy0,
                                  shear_strain_profile(y_mid(lay), yb, yt)),
                    lay.material, lay.rho_y, lay.stirrup_material, 0, None,
                    MAX_ITER_DEFAULT, TOL_DEFAULT)

\* integrate_forces_shear, the loop over the concrete layers from layer j on
RECURSIVE concrete_forces_shear(_, _, _, _, _, _)
concrete_forces_shear(section, eps_0, phi, gamma_xy0, y_ref, j) ==
    IF j > Len(section.concrete_layers) THEN << 0, 0, 0 >>
    ELSE add_forces(
             layer_forces(section.concrete_layers[j],
                          y_mid(section.concrete_layers[j]) - y_ref,
                          layer_state(section.concrete_layers[j], eps_0, phi,
                                      gamma_xy0, y_ref, y_bottom(section),
                                      y_top(section))),
             concrete_forces_shear(section, eps_0, phi, gamma_xy0, y_ref,
                                   j + 1))

\* integrate_forces_shear, the loops over the bars and the tendons (uniaxial)
steel_forces_shear(section, eps_0, phi, y_ref) ==
    LET bf(bar) == ReinforcingSteel_stress(bar.material,
                                           eps_0 - phi * (bar.y - y_ref)) * bar.area
        bm(bar) == bf(bar) * (bar.y - y_ref)
        tf(t) == PrestressingSteel_stress(t.material,
                       eps_0 - phi * (t.y - y_ref) + t.prestrain) * t.area
        tm(t) == tf(t) * (t.y - y_ref)
    IN << SumSeq(bf, section.rebars, 1) + SumSeq(tf, section.tendons, 1),
          -(SumSeq(bm, section.rebars, 1) + SumSeq(tm, section.tendons, 1)),
          0 >>

\* CrossSection.integrate_forces_shear: <<N, M, V>>
integrate_forces_shear(section, eps_0, phi, gamma_xy0, y_ref) ==
    add_forces(concrete_forces_shear(section, eps_0, phi, gamma_xy0, y_ref, 1),
               steel_forces_shear(section, eps_0, phi, y_ref))

\* the steps of the finite differences of integrate_stiffness_3x3
h_e_of(eps_0) == Max(RoundDiv(Abs(eps_0), DIFF_REL), H_E)

h_p_of(phi) == Max(RoundDiv(Abs(phi), DIFF_REL), H_P)

h_g_of(gamma_xy0) == Max(RoundDiv(Abs(gamma_xy0), DIFF_REL), H_G)

\* integrate_stiffness_3x3, the returned list of lists from the four
\* evaluations
stiffness_rows(F0, F1, F2, F3, h_e, h_p, h_g) ==
    << << RoundDiv(F1[1] - F0[1], h_e), RoundDiv(F2[1] - F0[1], h_p),
          RoundDiv(F3[1] - F0[1], h_g) >>,
       << RoundDiv(F1[2] - F0[2], h_e), RoundDiv(F2[2] - F0[2], h_p),
          RoundDiv(F3[2] - F0[2], h_g) >>,
       << RoundDiv(F1[3] - F0[3], h_e), RoundDiv(F2[3] - F0[3], h_p),
          RoundDiv(F3[3] - F0[3], h_g) >> >>

\* CrossSection.integrate_stiffness_3x3: the 3x3 tangent by forward
\* differences
integrate_stiffness_3x3(section, eps_0, phi, gamma_xy0, y_ref) ==
    stiffness_rows(
        integrate_forces_shear(section, eps_0, phi, gamma_xy0, y_ref),
        integrate_forces_shear(section, eps_0 + h_e_of(eps_0), phi, gamma_xy0,
                               y_ref),
        integrate_forces_shear(section, eps_0, phi + h_p_of(phi), gamma_xy0,
                               y_ref),
        integrate_forces_shear(section, eps_0, phi, gamma_xy0 + h_g_of(gamma_xy0),
                               y_ref),
        h_e_of(eps_0), h_p_of(phi), h_g_of(gamma_xy0))

\* VGammaPoint(...)
VGammaPoint(gamma_xy0, shear_force, moment, eps_0, curvature, converged) ==
    [gamma_xy0 |-> gamma_xy0, shear_force |-> shear_force, moment |-> moment,
     eps_0 |-> eps_0, curvature |-> curvature, converged |-> converged]

\* VGammaResult()
VGammaResult == [points |-> << >>]

\* ShearAnalysis.__init__
ShearAnalysis(section, axial_load, moment, y_ref, gamma_max, n_steps, max_iter, tol_force, tol_moment) ==
    [section |-> section, axial_load |-> axial_load, moment |-> moment,
     y_ref |-> IF y_ref # None THEN Val(y_ref) ELSE centroid_y(section),
     gamma_max |-> gamma_max, n_steps |-> n_steps, max_iter |-> max_iter,
     tol_force |-> tol_force, tol_moment |-> tol_moment]

\* run: d_gamma = gamma_max / n_steps
d_gamma(a) == RoundDiv(a.gamma_max, a.n_steps)

\* the sweep starting one increment above zero
gamma_of_next_step(a, step) == (step + 1) * d_gamma(a)

\* run: gamma_xy0 = step * d_gamma
gamma_of_step(a, step) == step * d_gamma(a)

\* the convergence test on the axial residual alone
shear_converged_axial_only(a, F) == Abs(F[1] - a.axial_load) < a.tol_force

\* run, the Newton loop's convergence test on res_N and res_M
shear_converged(a, F) ==
    /\ Abs(F[1] - a.axial_load) < a.tol_force
    /\ Abs(F[2] - a.moment) < a.tol_moment

\* run: det of the 2x2 block of J for (eps_0, phi)
det_of(J) == J[1][1] * J[2][2] - J[1][2] * J[2][1]

\* run: the 2x2 block is singular
singular(J) == Abs(det_of(J)) < DET_FLOOR

\* the Newton step taken in full, whatever its size
limit_to_nothing(d, bound) == d

\* run, "Limit step size"
limit_to(d, bound) ==
    IF Abs(d) > bound THEN bound * (IF d > 0 THEN 1 ELSE -1) ELSE d

\* run: the limited d_eps0 of the closed-form 2x2 solve
d_eps0_of(a, F, J) ==
    limit_to(RoundDiv(-J[2][2] * (F[1] - a.axial_load)
                        + J[1][2] * (F[2] - a.moment), det_of(J)), MAX_DE)

\* run: the limited d_phi of the closed-form 2x2 solve
d_phi_of(a, F, J) ==
    limit_to(RoundDiv(J[2][1] * (F[1] - a.axial_load)
                        - J[1][1] * (F[2] - a.moment), det_of(J)), MAX_DP)

\* run, "if not converged and step > 0: break"
sweep_breaks(conv, step) == ~conv /\ step > 0

\* ----------------------------------------------- longitudinal stiffness method
\* compute_shear_stress_distribution.  A quotient by the determinant is held
\* as the fraction [num, den]; 0.0 is Zero.

Zero == [num |-> 0, den |-> 1]

\* ShearStressPoint(...)
ShearStressPoint(y, tau, delta_q) == [y |-> y, tau |-> tau, delta_q |-> delta_q]

\* the determinant of a 3x3 list of lists, by cofactors of the first row
det3(a) ==
    a[1][1] * (a[2][2] * a[3][3] - a[2][3] * a[3][2])
      - a[1][2] * (a[2][1] * a[3][3] - a[2][3] * a[3][1])
      + a[1][3] * (a[2][1] * a[3][2] - a[2][2] * a[3][1])

\* _solve_3x3, "Replace column col with b"
replace_column(a, col, b) ==
    [i \in 1..3 |-> [j \in 1..3 |-> IF j = col THEN b[i] ELSE a[i][j]]]

\* Cramer's rule applied whatever the determinant is
solve_3x3_unguarded(A, b) ==
    Some([num |-> [col \in 1..3 |-> det3(replace_column(A, col, b))],
          den |-> det3(A)])

\* _solve_3x3: None for a singular matrix, else the solution by Cramer's
\* rule, the three numerators over the determinant
solve_3x3(A, b) ==
    IF Abs(det3(A)) < DET3_FLOOR THEN None
    ELSE Some([num |-> [col \in 1..3 |-> det3(replace_column(A, col, b))],
               den |-> det3(A)])

\* Step 1: the entry of layer_data for one layer with the state of its node
layer_data_of(lay, dy, s, state) ==
    [lay |-> lay, dy |-> dy, s |-> s,
     j |-> state.tangent_xx * area(lay),
     k_g |-> state.tangent_xg * area(lay),
     tau_gx |-> state.tangent_gx * area(lay),
     tau_gg |-> state.tangent_gg * area(lay)]

\* Step 1: layer_data
layer_data(section, eps_0, phi, gamma_xy0, y_ref) ==
    [i \in 1..Len(section.concrete_layers) |->
        layer_data_of(section.concrete_layers[i],
                      y_mid(section.concrete_layers[i]) - y_ref,
                      shear_strain_profile(y_mid(section.concrete_layers[i]),
                                           y_bottom(section), y_top(section)),
                      layer_state(section.concrete_layers[i], eps_0, phi,
                                  gamma_xy0, y_ref, y_bottom(section),
                                  y_top(section)))]

\* Step 2: what one layer adds to J
J_of_layer(ld) ==
    << << ld.j, ld.j * (-ld.dy), profile_times(ld.k_g, ld.s) >>,
       << -ld.dy * ld.j, ld.dy * ld.dy * ld.j,
          profile_times(-ld.dy * ld.k_g, ld.s) >>,
       << ld.tau_gx, ld.tau_gx * (-ld.dy), profile_times(ld.tau_gg, ld.s) >> >>

\* Step 2: what a bar or a tendon of axial stiffness ea at distance dy adds
J_of_steel(ea, dy) ==
    << << ea, -(ea * dy), 0 >>, << -(ea * dy), ea * dy * dy, 0 >>,
       << 0, 0, 0 >> >>

J_of_bar(bar, eps_0, phi, y_ref) ==
    J_of_steel(ReinforcingSteel_tangent(bar.material,
                   eps_0 - phi * (bar.y - y_ref)) * bar.area,
               bar.y - y_ref)

J_of_tendon(t, eps_0, phi, y_ref) ==
    J_of_steel(PrestressingSteel_tangent(t.material,
                   eps_0 - phi * (t.y - y_ref) + t.prestrain) * t.area,
               t.y - y_ref)

\* Step 2: the assembled Jacobian
assemble_J(data, section, eps_0, phi, y_ref) ==
    [r \in 1..3 |-> [c \in 1..3 |->
        LET from_layer(ld) == J_of_layer(ld)[r][c]
            from_bar(bar) == J_of_bar(bar, eps_0, phi, y_ref)[r][c]
            from_tendon(t) == J_of_tendon(t, eps_0, phi, y_ref)[r][c]
        IN SumSeq(from_layer, data, 1) + SumSeq(from_bar, section.rebars, 1)
             + SumSeq(from_tendon, section.tendons, 1)]]

\* Step 4: the numerator of delta_q of one layer, over the determinant
delta_q_of(ld, x) ==
    ld.j * (x.num[1] - x.num[2] * ld.dy)
      + ld.k_g * profile_times(x.num[3], ld.s)

\* Step 5: q_cumulative at layer i, summed from the top layer down
RECURSIVE q_cumulative(_, _, _)
q_cumulative(data, x, i) ==
    IF i > Len(data) THEN 0
    ELSE q_cumulative(data, x, i + 1)
           + delta_q_of(data[i], x) * thickness(data[i].lay)

\* Step 5: tau = q_cumulative / width, 0.0 for a layer without width
tau_of(lay, q, den) ==
    IF lay.width > 0 THEN [num |-> q, den |-> den * lay.width] ELSE Zero

\* Steps 4 and 5: the points, bottom to top
stress_points(data, x) ==
    [i \in 1..Len(data) |->
        ShearStressPoint(y_mid(data[i].lay),
                         tau_of(data[i].lay, q_cumulative(data, x, i), x.den),
                         [num |-> delta_q_of(data[i], x), den |-> x.den])]

\* "Singular matrix - return zero shear stress"
zero_points(layers) ==
    [i \in 1..Len(layers) |-> ShearStressPoint(y_mid(layers[i]), Zero, Zero)]

\* Step 3 and the return: J * [d_eps0, d_phi, d_gamma0] = [0, 1, 0]
points_from(data, layers, virtual_strains) ==
    IF virtual_strains = None THEN zero_points(layers)
    ELSE stress_points(data, Val(virtual_strains))

\* Steps 1 and 2
J_of_section(section, eps_0, phi, gamma_xy0, y_ref) ==
    assemble_J(layer_data(section, eps_0, phi, gamma_xy0, y_ref), section,
               eps_0, phi, y_ref)

\* compute_shear_stress_distribution
compute_shear_stress_distribution(section, eps_0, phi, gamma_xy0, y_ref) ==
    IF section.concrete_layers = << >> THEN << >>
    ELSE points_from(layer_data(section, eps_0, phi, gamma_xy0, y_ref),
                     section.concrete_layers,
                     solve_3x3(J_of_section(section, eps_0, phi, gamma_xy0,
                                            y_ref),
                               << 0, 1, 0 >>))

\* ------------------------------------------------------------------ inputs
\* Materials and sections on the grid.  The stresses of every law are even at
\* every grid strain, so every central-difference tangent is exact.

HognestadCutoff ==
    [fc |-> 640, ec |-> 8, Ec |-> 160, ft |-> 480, ecu |-> 16,
     compression_model |-> "hognestad", tension_model |-> "linear_cutoff"]

HognestadNoTension ==
    [fc |-> 640, ec |-> 8, Ec |-> 160, ft |-> 480, ecu |-> 16,
     compression_model |-> "hognestad", tension_model |-> "no_tension"]

HardeningSteel ==
    [fy |-> 600, Es |-> 100, fu |-> 800, esh |-> 10, esu |-> 26,
     model |-> "bilinear"]

\* a steel that hardens slowly up to a large fracture strain
DuctileSteel ==
    [fy |-> 600, Es |-> 100, fu |-> 8600, esh |-> 10, esu |-> 4006,
     model |-> "bilinear"]

PlateauSteel ==
    [fy |-> 600, Es |-> 100, fu |-> 1400, esh |-> 10, esu |-> 30,
     model |-> "trilinear"]

Strand ==
    [fpu |-> 2000, Ep |-> 100, fpy |-> 1800, epu |-> 20, model |-> "bilinear"]

\* _SectionShape.discretise of a RectangularSection(b, h) into n layers of
\* thickness t = h / n (t even, so that every y_mid is on the grid)
discretise(b, t, n, material) ==
    [i \in 1..n |-> [y_bot |-> (i - 1) * t, y_top |-> i * t, width |-> b,
                     material |-> material,
                     rho_y |-> 0, stirrup_material |-> None]]

PlainSection ==
    [concrete_layers |-> discretise(1, 2, 4, HognestadCutoff),
     rebars |-> << >>, tendons |-> << >>]

ReinforcedSection ==
    [concrete_layers |-> discretise(1, 2, 4, HognestadCutoff),
     rebars |-> << [y |-> 1, area |-> 2, material |-> HardeningSteel],
                   [y |-> 7, area |-> 1, material |-> HardeningSteel] >>,
     tendons |-> << >>]

PlateauSection ==
    [concrete_layers |-> discretise(1, 2, 4, HognestadNoTension),
     rebars |-> << [y |-> 1, area |-> 2, material |-> PlateauSteel] >>,
     tendons |-> << >>]

PrestressedSection ==
    [concrete_layers |-> discretise(1, 2, 4, HognestadCutoff),
     rebars |-> << >>,
     tendons |-> << [y |-> 1, area |-> 2, material |-> Strand,
                     prestrain |-> 8] >>]

\* CrossSection(): no concrete layers, no reinforcement
EmptySection == [concrete_layers |-> << >>, rebars |-> << >>, tendons |-> << >>]

Sections ==
    {PlainSection, ReinforcedSection, PlateauSection, PrestressedSection,
     EmptySection}

AxialLoads == {-1000, 0, 1500}

Tolerances == {1, 700}

\* the arguments solve_mcft_node is called with: longitudinal strains from
\* crushing to cracked tension and beyond the bound on eps_y, shear strains
\* of both signs, with and without stirrups and smeared longitudinal steel
NodeStrains == {-12000000, -12, -6, -2, 0, 2, 4, 10, 12000000}

NodeShears == {-20, -6, -2, 0, 2, 6, 20}

\* <<rho, material>>
Reinforcements ==
    {<<0, None>>, <<1, Some(HardeningSteel)>>, <<1, Some(PlateauSteel)>>}

NodeTolerances == {8, TOL_DEFAULT}

\* the sections ShearAnalysis is run on: two concrete layers, a bar in each,
\* with and without stirrups
BarePair ==
    [concrete_layers |-> discretise(1, 2, 2, HognestadCutoff),
     rebars |-> << [y |-> 1, area |-> 1, material |-> HardeningSteel],
                   [y |-> 3, area |-> 1, material |-> HardeningSteel] >>,
     tendons |-> << >>]

StirrupSection == set_stirrups(BarePair, 1, 1, HardeningSteel)

\* the pair with bars of the ductile steel: past the crushing of the concrete
\* its stiffness is the small hardening stiffness of the bars
DuctilePair ==
    [BarePair EXCEPT !.rebars =
        << [y |-> 1, area |-> 1, material |-> DuctileSteel],
           [y |-> 3, area |-> 1, material |-> DuctileSteel] >>]

ShearSections == {StirrupSection, BarePair, DuctilePair}

\* axial_load: none, moderate compression, compression beyond the capacity,
\* and a compression whose unlimited Newton step exceeds the step limit
ShearAxialLoads == {0, -2300, -100000, -1000000}

ShearMoments == {0, 300}

\* the increment gamma_max / n_steps is drawn from ShearIncrements (multiples
\* of 8, so that gamma_xy0 * s(y) is on the grid at every layer)
ShearIncrements == {8, 16}

ShearTolerances == {<<50, 100>>, <<400, 800>>}

\* the arguments the section's functions are called with: sections without
\* layers, with two and with four layers, with bars, stirrups and a tendon;
\* strains from compression past the peak to cracked tension
SectionCallSections ==
    {EmptySection, BarePair, StirrupSection, ReinforcedSection,
     PrestressedSection}

SectionCallStrains == {-10, -3, 0, 2, 5}

SectionCallCurvatures == {-1, 0, 1}

SectionCallShears == {0, 8, 32}

\* y_bot and the depth y_top - y_bot of shear_strain_profile's arguments: even
\* depths (the mid-depth is on the grid), no depth, and y_top below y_bot
ProfileBottoms == {-2, 0, 3}

ProfileDepths == {-2, 0, 2, 4, 6}

\* ------------------------------------------------------------------- state

VARIABLES
    self,           \* the MomentCurvatureAnalysis object
    result,         \* run's MPhiResult
    phis,           \* run's curvature vector
    i_phi,          \* position of "for phi in phis" (1-based)
    eps_0,          \* run's eps_0
    prev_cracked,   \* run's prev_cracked
    prev_yielded,   \* run's prev_yielded
    converged,      \* run's converged
    iteration,      \* number of Newton iterations of this step that updated eps_0
    newton_exit,    \* how the Newton loop of this step was left
    pc,             \* position in run
    step,           \* ShearAnalysis.run's step
    curvature,      \* ShearAnalysis.run's phi
    forces,         \* ShearAnalysis.run's N, M, V
    eps_y,          \* solve_mcft_node's eps_y
    first_result    \* what an earlier run() on the same object returned, or None

vars == << self, result, phis, i_phi, eps_0, prev_cracked, prev_yielded,
           converged, iteration, newton_exit, pc, step, curvature,
           forces, eps_y, first_result >>

\* the state after construction: an analysis object, run() not yet entered
Init ==
    /\ \E section \in Sections, axial_load \in AxialLoads,
          n_steps \in 1..MaxNSteps, dphi \in 1..MaxDPhi,
          curvature_step \in {None, Some(2)},
          tol_force \in Tolerances, max_iter \in 1..MaxIterCap :
          \E max_curvature \in {None, Some(n_steps * dphi)} :
              \* the auto-detected max_curvature is swept in n_steps steps
              /\ max_curvature = None => curvature_step = None
              /\ self = MomentCurvatureAnalysis(section, axial_load,
                            max_curvature, n_steps, curvature_step, None,
                            tol_force, max_iter)
    \* the curvature increment is on the grid
    /\ self.max_curvature % self.n_steps = 0
    /\ result = MPhiResult(self.axial_load, self.y_ref)
    /\ phis = << >>
    /\ i_phi = 1
    /\ eps_0 = 0
    /\ prev_cracked = FALSE
    /\ prev_yielded = FALSE
    /\ converged = FALSE
    /\ iteration = 0
    /\ newton_exit = ""
    /\ pc = "build"
    /\ step = 0
    /\ curvature = 0
    /\ forces = None
    /\ eps_y = 0
    /\ first_result = None

\* run, lines 244-256: the result, the curvature vector, the initial guess
BuildCurvatures ==
    /\ pc = "build"
    /\ result' = MPhiResult(self.axial_load, self.y_ref)
    /\ phis' = curvature_vector(self)
    /\ eps_0' = 0
    /\ prev_cracked' = FALSE
    /\ prev_yielded' = FALSE
    /\ i_phi' = 1
    /\ converged' = FALSE
    /\ iteration' = 0
    /\ newton_exit' = ""
    /\ pc' = IF phis' = << >> THEN "finish" ELSE "newton"
    /\ UNCHANGED << first_result, step, curvature, forces, eps_y, self >>

\* the residual N - axial_load of the current Newton iteration
residual == integrate_forces(self.section, eps_0, phis[i_phi], self.y_ref)[1]
              - self.axial_load

\* the EA of the current Newton iteration
EA == integrate_stiffness(self.section, eps_0, phis[i_phi], self.y_ref)[1]

\* Newton iteration, lines 265-267: equilibrium within tolerance
NewtonConverged ==
    /\ pc = "newton"
    /\ iteration < self.max_iter
    /\ residual_converged(self, residual)
    /\ converged' = TRUE
    /\ newton_exit' = "converged"
    /\ pc' = "record"
    /\ UNCHANGED << first_result, step, curvature, forces, eps_y, self,
                    result, phis, i_phi, eps_0, prev_cracked,
                    prev_yielded, iteration >>

\* continue for break: the iteration is counted and the loop goes on
NewtonStiffnessLost_continue ==
    /\ pc = "newton"
    /\ iteration < self.max_iter
    /\ ~residual_converged(self, residual)
    /\ stiffness_lost(EA)
    /\ iteration' = iteration + 1
    /\ UNCHANGED << first_result, step, curvature, forces, eps_y, self,
                    result, phis, i_phi, eps_0, prev_cracked,
                    prev_yielded, converged, newton_exit, pc >>

\* Newton iteration, lines 269-272: the section has lost all stiffness
NewtonStiffnessLost ==
    /\ pc = "newton"
    /\ iteration < self.max_iter
    /\ ~residual_converged(self, residual)
    /\ stiffness_lost(EA)
    /\ newton_exit' = "stiffness_lost"
    /\ pc' = "record"
    /\ UNCHANGED << first_result, step, curvature, forces, eps_y, self,
                    result, phis, i_phi, eps_0, prev_cracked,
                    prev_yielded, converged, iteration >>

\* Newton iteration, line 273: the update of eps_0
NewtonUpdate ==
    /\ pc = "newton"
    /\ iteration < self.max_iter
    /\ ~residual_converged(self, residual)
    /\ ~stiffness_lost(EA)
    /\ eps_0' = eps_0 - RoundDiv(residual, EA)
    /\ iteration' = iteration + 1
    /\ UNCHANGED << first_result, step, curvature, forces, eps_y, self,
                    result, phis, i_phi, prev_cracked, prev_yielded,
                    converged, newton_exit, pc >>

\* line 261: range(max_iter) is exhausted
NewtonExhausted ==
    /\ pc = "newton"
    /\ iteration >= self.max_iter
    /\ newton_exit' = "max_iter"
    /\ pc' = "record"
    /\ UNCHANGED << first_result, step, curvature, forces, eps_y, self,
                    result, phis, i_phi, eps_0, prev_cracked,
                    prev_yielded, converged, iteration >>

\* run, lines 275-320: the point is recorded, the events are detected, and the
\* sweep ends or goes on to the next curvature
RecordPoint ==
    /\ pc = "record"
    /\ LET phi == phis[i_phi]
           M == integrate_forces(self.section, eps_0, phi, self.y_ref)[2]
           na_y == IF Abs(phi) > PHI_FLOOR
                   THEN Some(self.y_ref + RoundDiv(eps_0, phi))
                   ELSE Inf
           points == Append(result.points,
                            MPhiPoint(phi, M, eps_0, na_y, converged))
           last == Len(points) - 1
           cracked == event_fires(result.cracking_index, prev_cracked,
                                  check_cracking(self, eps_0, phi))
           yielded == event_fires(result.yield_index, prev_yielded,
                                  check_yield(self, eps_0, phi))
           failure == check_failure(self, eps_0, phi)
       IN /\ result' = [result EXCEPT
                 !.points = points,
                 !.cracking_index = IF cracked THEN Some(last) ELSE @,
                 !.yield_index = IF yielded THEN Some(last) ELSE @,
                 !.ultimate_index =
                     ultimate_index_after(@, failure, converged, last),
                 !.failure_reason =
                     failure_reason_after(@, failure, converged)]
          /\ prev_cracked' = (prev_cracked \/ cracked)
          /\ prev_yielded' = (prev_yielded \/ yielded)
          /\ IF sweep_ends(failure, converged) \/ i_phi = Len(phis)
             THEN /\ pc' = "finish"
                  /\ UNCHANGED << i_phi, converged, iteration, newton_exit >>
             ELSE /\ pc' = "newton"
                  /\ i_phi' = i_phi + 1
                  /\ converged' = FALSE
                  /\ iteration' = 0
                  /\ newton_exit' = ""
    /\ UNCHANGED << first_result, step, curvature, forces, eps_y, self, phis, eps_0 >>

\* run, lines 322-326: the ultimate point of a sweep that met no failure
Finish ==
    /\ pc = "finish"
    /\ result' = [result EXCEPT
           !.ultimate_index =
               IF @ = None /\ result.points # << >>
               THEN Some(Len(result.points) - 1) ELSE @]
    /\ pc' = "done"
    /\ UNCHANGED << first_result, step, curvature, forces, eps_y, self,
                    phis, i_phi, eps_0, prev_cracked, prev_yielded,
                    converged, iteration, newton_exit >>

Next ==
    \/ BuildCurvatures
    \/ NewtonConverged
    \/ NewtonStiffnessLost
    \/ NewtonUpdate
    \/ NewtonExhausted
    \/ RecordPoint
    \/ Finish

Spec == Init /\ [][Next]_vars

\* ------------------------------------------------------ solve_mcft_node
\* One call of solve_mcft_node as a state machine: self holds the arguments,
\* eps_y, converged and iteration (the loop variable _it) are its locals,
\* result is the returned MCFTState.

\* the variables solve_mcft_node does not use
not_node == << phis, i_phi, eps_0, prev_cracked, prev_yielded, newton_exit,
               step, curvature, forces, first_result >>

\* the call: the arguments are bound
InitNode ==
    /\ \E eps_x \in NodeStrains, gamma_xy \in NodeShears,
          y \in Reinforcements, x \in Reinforcements,
          max_iter \in (1..MaxIterCap) \cup {MAX_ITER_DEFAULT},
          tol \in NodeTolerances :
          self = NodeArgs(eps_x, gamma_xy, HognestadCutoff, y[1], y[2],
                          x[1], x[2], max_iter, tol)
    /\ result = None
    /\ eps_y = 0
    /\ converged = FALSE
    /\ iteration = 0
    /\ pc = "node_call"
    /\ phis = << >>
    /\ i_phi = 1
    /\ eps_0 = 0
    /\ prev_cracked = FALSE
    /\ prev_yielded = FALSE
    /\ newton_exit = ""
    /\ step = 0
    /\ curvature = 0
    /\ forces = None
    /\ first_result = None

\* lines 205-225: no shear, the uniaxial state is returned
NodeUniaxial ==
    /\ pc = "node_call"
    /\ Abs(self.gamma_xy) < GAMMA_FLOOR
    /\ result' = Some(uniaxial_state(self))
    /\ pc' = "node_done"
    /\ UNCHANGED << self, eps_y, converged, iteration, not_node >>

\* lines 227-230: the initial guess of eps_y
NodeGuess ==
    /\ pc = "node_call"
    /\ ~(Abs(self.gamma_xy) < GAMMA_FLOOR)
    /\ eps_y' = RoundDiv(self.eps_x, 2)
    /\ converged' = FALSE
    /\ iteration' = 0
    /\ pc' = "node_loop"
    /\ UNCHANGED << self, result, not_node >>

\* lines 239-241: the residual is within tol
NodeConverged ==
    /\ pc = "node_loop"
    /\ iteration < self.max_iter
    /\ node_converged(self, residual_at(self, eps_y).sigma_y_total)
    /\ converged' = TRUE
    /\ pc' = "node_final"
    /\ UNCHANGED << self, result, eps_y, iteration, not_node >>

\* lines 251-254: the tangent is flat, eps_y is moved by the fixed step and
\* the loop continues
NodeFlat ==
    /\ pc = "node_loop"
    /\ iteration < self.max_iter
    /\ ~node_converged(self, residual_at(self, eps_y).sigma_y_total)
    /\ flat_tangent(d_res_at(self, eps_y,
                             residual_at(self, eps_y).sigma_y_total))
    /\ eps_y' = flat_step(residual_at(self, eps_y).sigma_y_total, eps_y)
    /\ iteration' = iteration + 1
    /\ UNCHANGED << self, result, converged, pc, not_node >>

\* lines 256-265: the Newton step
NodeNewton ==
    /\ pc = "node_loop"
    /\ iteration < self.max_iter
    /\ ~node_converged(self, residual_at(self, eps_y).sigma_y_total)
    /\ ~flat_tangent(d_res_at(self, eps_y,
                              residual_at(self, eps_y).sigma_y_total))
    /\ eps_y' = next_eps_y(self, eps_y, residual_at(self, eps_y).sigma_y_total)
    /\ iteration' = iteration + 1
    /\ UNCHANGED << self, result, converged, pc, not_node >>

\* line 231: range(max_iter) is exhausted
NodeExhausted ==
    /\ pc = "node_loop"
    /\ iteration >= self.max_iter
    /\ pc' = "node_final"
    /\ UNCHANGED << self, result, eps_y, converged, iteration, not_node >>

\* lines 267-312: the final evaluation, the tangent, the returned state
NodeReturn ==
    /\ pc = "node_final"
    /\ result' = Some(final_state(self, eps_y, converged))
    /\ pc' = "node_done"
    /\ UNCHANGED << self, eps_y, converged, iteration, not_node >>

NextNode ==
    \/ NodeUniaxial
    \/ NodeGuess
    \/ NodeConverged
    \/ NodeFlat
    \/ NodeNewton
    \/ NodeExhausted
    \/ NodeReturn

SpecNode == InitNode /\ [][NextNode]_vars

\* ------------------------------------------------------- ShearAnalysis.run
\* One call of ShearAnalysis.run as a state machine: self is the analysis,
\* result the VGammaResult, step the loop variable of the sweep, eps_0 and
\* curvature (the local phi) the two unknowns, forces the triple (N, M, V) of
\* the last evaluation in the Newton loop, iteration the loop variable _it.

\* the variables ShearAnalysis.run does not use
not_shear == << phis, i_phi, prev_cracked, prev_yielded, eps_y, first_result >>

\* gamma_xy0 of the current step
gamma_xy0 == gamma_of_step(self, step)

\* sec.integrate_forces_shear(eps_0, phi, gamma_xy0, y_ref) at the current
\* iterate
forces_now ==
    integrate_forces_shear(self.section, eps_0, curvature, gamma_xy0, self.y_ref)

\* sec.integrate_stiffness_3x3(eps_0, phi, gamma_xy0, y_ref) at the current
\* iterate
J_now ==
    integrate_stiffness_3x3(self.section, eps_0, curvature, gamma_xy0,
                            self.y_ref)

\* __init__ and lines 122-130
InitShear ==
    /\ \E section \in ShearSections, axial_load \in ShearAxialLoads,
          moment \in ShearMoments, n_steps \in 1..MaxNSteps,
          dg \in ShearIncrements,
          max_iter \in (0..MaxIterCap) \cup {SHEAR_MAX_ITER_DEFAULT},
          tol \in ShearTolerances :
          \* the largest compression is applied to the ductile pair
          /\ (section = DuctilePair) <=> (axial_load = -1000000)
          /\ self = ShearAnalysis(section, axial_load, moment, None,
                                  n_steps * dg, n_steps, max_iter,
                                  tol[1], tol[2])
    /\ result = VGammaResult
    /\ eps_0 = 0
    /\ curvature = 0
    /\ step = 0
    /\ forces = None
    /\ converged = FALSE
    /\ iteration = 0
    /\ newton_exit = ""
    /\ pc = "shear_step"
    /\ phis = << >>
    /\ i_phi = 1
    /\ prev_cracked = FALSE
    /\ prev_yielded = FALSE
    /\ eps_y = 0
    /\ first_result = None

\* lines 132-137: the next step of the sweep begins
ShearBeginStep ==
    /\ pc = "shear_step"
    /\ step <= self.n_steps
    /\ converged' = FALSE
    /\ iteration' = 0
    /\ newton_exit' = ""
    /\ pc' = "shear_newton"
    /\ UNCHANGED << self, result, step, eps_0, curvature, forces, not_shear >>

\* lines 138-147: both residuals are within tolerance
ShearConvergedWith(F) ==
    /\ shear_converged(self, F)
    /\ forces' = Some(F)
    /\ converged' = TRUE
    /\ newton_exit' = "converged"
    /\ pc' = "shear_record"
    /\ UNCHANGED << self, result, step, eps_0, curvature, iteration, not_shear >>

ShearConverged ==
    /\ pc = "shear_newton"
    /\ iteration < self.max_iter
    /\ ShearConvergedWith(forces_now)

\* lines 150-160: the 2x2 block is singular, the loop is left
ShearSingularWith(F, J) ==
    /\ ~shear_converged(self, F)
    /\ singular(J)
    /\ forces' = Some(F)
    /\ newton_exit' = "singular"
    /\ pc' = "shear_record"
    /\ UNCHANGED << self, result, step, eps_0, curvature, converged, iteration,
                    not_shear >>

ShearSingular ==
    /\ pc = "shear_newton"
    /\ iteration < self.max_iter
    /\ ShearSingularWith(forces_now, J_now)

\* lines 162-175: the limited Newton update of eps_0 and phi
ShearNewtonWith(F, J) ==
    /\ ~shear_converged(self, F)
    /\ ~singular(J)
    /\ forces' = Some(F)
    /\ eps_0' = eps_0 + d_eps0_of(self, F, J)
    /\ curvature' = curvature + d_phi_of(self, F, J)
    /\ iteration' = iteration + 1
    /\ UNCHANGED << self, result, step, converged, newton_exit, pc, not_shear >>

ShearNewton ==
    /\ pc = "shear_newton"
    /\ iteration < self.max_iter
    /\ ShearNewtonWith(forces_now, J_now)

\* line 137: range(max_iter) is exhausted
ShearExhausted ==
    /\ pc = "shear_newton"
    /\ iteration >= self.max_iter
    /\ newton_exit' = "max_iter"
    /\ pc' = "shear_record"
    /\ UNCHANGED << self, result, step, eps_0, curvature, forces, converged,
                    iteration, not_shear >>

\* lines 177-193: the point is recorded from the triple F (recomputed at the
\* converged state, else the loop's last evaluation), then the sweep goes on
\* or is left
ShearRecordWith(F) ==
    /\ result' = [result EXCEPT !.points =
                     Append(@, VGammaPoint(gamma_xy0, F[3], F[2], eps_0,
                                           curvature, converged))]
    /\ IF sweep_breaks(converged, step)
       THEN pc' = "shear_done" /\ step' = step
       ELSE pc' = "shear_step" /\ step' = step + 1
    /\ UNCHANGED << self, eps_0, curvature, forces, converged, iteration,
                    newton_exit, not_shear >>

ShearRecord ==
    /\ pc = "shear_record"
    /\ converged \/ forces # None
    /\ ShearRecordWith(IF converged THEN forces_now ELSE Val(forces))

\* lines 182-185: the step is not converged and the Newton loop has made no
\* pass (max_iter = 0), so N, M and V are unbound: VGammaPoint(...,
\* shear_force=V, ...) raises UnboundLocalError and run returns nothing
ShearUnbound ==
    /\ pc = "shear_record"
    /\ ~converged
    /\ forces = None
    /\ pc' = "shear_raised"
    /\ UNCHANGED << self, result, step, eps_0, curvature, forces, converged,
                    iteration, newton_exit, not_shear >>

\* lines 132 and 195: range(n_steps + 1) is exhausted, the result is returned
ShearReturn ==
    /\ pc = "shear_step"
    /\ step > self.n_steps
    /\ pc' = "shear_done"
    /\ UNCHANGED << self, result, step, eps_0, curvature, forces, converged,
                    iteration, newton_exit, not_shear >>

NextShear ==
    \/ ShearBeginStep
    \/ ShearConverged
    \/ ShearSingular
    \/ ShearNewton
    \/ ShearExhausted
    \/ ShearRecord
    \/ ShearUnbound
    \/ ShearReturn

SpecShear == InitShear /\ [][NextShear]_vars

\* ------------------------------------------------------- the three solvers
\* MomentCurvatureAnalysis.run, solve_mcft_node and ShearAnalysis.run side by
\* side: a behaviour is one call of one of them.

InitAll == Init \/ InitNode \/ InitShear

NextAll == Next \/ NextNode \/ NextShear

SpecAll == InitAll /\ [][NextAll]_vars

\* ------------------------------------------------- the section's functions
\* One call of CrossSection.integrate_forces and integrate_forces_shear on
\* the same arguments, of CrossSection.shear_strain_profile, or of
\* compute_shear_stress_distribution: self holds the arguments, result the
\* returned value.

\* the variables the three calls do not use
not_section == << phis, i_phi, eps_0, prev_cracked, prev_yielded, converged,
                  iteration, newton_exit, step, curvature, forces, eps_y,
                  first_result >>

\* not_section before a call
NoLocals ==
    /\ phis = << >>
    /\ i_phi = 1
    /\ eps_0 = 0
    /\ prev_cracked = FALSE
    /\ prev_yielded = FALSE
    /\ converged = FALSE
    /\ iteration = 0
    /\ newton_exit = ""
    /\ step = 0
    /\ curvature = 0
    /\ forces = None
    /\ eps_y = 0
    /\ first_result = None

\* the arguments (section, eps_0, phi, gamma_xy0, y_ref) of the integrators
\* and of compute_shear_stress_distribution; y_ref is the centroid or the
\* bottom of the section
SectionArgs ==
    { [section |-> s, eps_0 |-> e, phi |-> p, gamma_xy0 |-> g, y_ref |-> r] :
        s \in SectionCallSections, e \in SectionCallStrains,
        p \in SectionCallCurvatures, g \in SectionCallShears,
        r \in {0, 2, 4} }

\* the arguments (y, y_bot, y_top) of shear_strain_profile
ProfileArgs ==
    { [y |-> yb + d, y_bot |-> yb, y_top |-> yb + h] :
        yb \in ProfileBottoms, h \in ProfileDepths, d \in 0..MaxProfileDepth }

\* the two integrators are compared at gamma_xy0 = 0.0; the calls are listed
\* from the cheapest to evaluate to the most expensive
InitSection ==
    /\ \/ pc = "profile_call" /\ self \in ProfileArgs
       \/ pc = "forces_call" /\ self \in SectionArgs /\ self.gamma_xy0 = 0
       \/ pc = "lsm_call" /\ self \in SectionArgs /\ self.gamma_xy0 = 0
       \/ pc = "lsm_call" /\ self \in SectionArgs /\ self.gamma_xy0 # 0
            /\ self.eps_0 >= 0
       \/ pc = "lsm_call" /\ self \in SectionArgs /\ self.gamma_xy0 # 0
            /\ self.eps_0 < 0
    /\ result = None
    /\ NoLocals

\* integrate_forces and integrate_forces_shear are called on the arguments
CallIntegrateForces ==
    /\ pc = "forces_call"
    /\ result' = Some([uniaxial |-> integrate_forces(self.section, self.eps_0,
                                       self.phi, self.y_ref),
                       biaxial |-> integrate_forces_shear(self.section,
                                       self.eps_0, self.phi, self.gamma_xy0,
                                       self.y_ref)])
    /\ pc' = "forces_done"
    /\ UNCHANGED << self, not_section >>

\* shear_strain_profile is called on the arguments
CallShearStrainProfile ==
    /\ pc = "profile_call"
    /\ result' = Some(shear_strain_profile(self.y, self.y_bot, self.y_top))
    /\ pc' = "profile_done"
    /\ UNCHANGED << self, not_section >>

\* compute_shear_stress_distribution is called on the arguments
CallShearStressDistribution ==
    /\ pc = "lsm_call"
    /\ result' = Some(compute_shear_stress_distribution(self.section,
                          self.eps_0, self.phi, self.gamma_xy0, self.y_ref))
    /\ pc' = "lsm_done"
    /\ UNCHANGED << self, not_section >>

NextSection ==
    \/ CallIntegrateForces
    \/ CallShearStrainProfile
    \/ CallShearStressDistribution

SpecSection == InitSection /\ [][NextSection]_vars

\* ------------------------------------------------------ run() called again
\* MomentCurvatureAnalysis.run or ShearAnalysis.run, and a second call on the
\* same object once the first has returned: first_result keeps what the
\* first call returned, the locals of the second call are new.

\* run() is called again on the MomentCurvatureAnalysis object (its locals are
\* bound at lines 244-256)
RunAgain ==
    /\ pc = "done"
    /\ first_result = None
    /\ first_result' = Some(result)
    /\ pc' = "build"
    /\ UNCHANGED << self, result, phis, i_phi, eps_0, prev_cracked,
                    prev_yielded, converged, iteration, newton_exit, step,
                    curvature, forces, eps_y >>

\* the second call starting from the eps_0 and phi the first call ended with
ShearRunAgain_warm ==
    /\ pc = "shear_done"
    /\ first_result = None
    /\ first_result' = Some(result)
    /\ result' = VGammaResult
    /\ step' = 0
    /\ forces' = None
    /\ converged' = FALSE
    /\ iteration' = 0
    /\ newton_exit' = ""
    /\ pc' = "shear_step"
    /\ UNCHANGED << self, eps_0, curvature, phis, i_phi, prev_cracked,
                    prev_yielded, eps_y >>

\* run() is called again on the ShearAnalysis object, lines 122-130: a new
\* result, eps_0 = 0.0, phi = 0.0
ShearRunAgain ==
    /\ pc = "shear_done"
    /\ first_result = None
    /\ first_result' = Some(result)
    /\ result' = VGammaResult
    /\ eps_0' = 0
    /\ curvature' = 0
    /\ step' = 0
    /\ forces' = None
    /\ converged' = FALSE
    /\ iteration' = 0
    /\ newton_exit' = ""
    /\ pc' = "shear_step"
    /\ UNCHANGED << self, phis, i_phi, prev_cracked, prev_yielded, eps_y >>

\* the analysis objects run() is called twice on: every MomentCurvatureAnalysis
\* of Init, the ShearAnalysis objects of InitShear with the smaller increment
\* and the wider tolerances
InitRerun ==
    \/ Init
    \/ /\ InitShear
       /\ self.gamma_max = 8 * self.n_steps
       /\ self.tol_force = 400

NextRerun == Next \/ NextShear \/ RunAgain \/ ShearRunAgain

SpecRerun == InitRerun /\ [][NextRerun]_vars

\* ------------------------------------------------------------------ claims

\* number of recorded points
NPoints == Len(result.points)

\* the physical failure mode the criteria of _check_failure give at the state
\* recorded in point p, or ""
PhysicalAt(p) == check_failure(self, p.eps_0, p.curvature)

\* point p is converged and meets no failure criterion
Clean(p) == p.converged /\ PhysicalAt(p) = ""

\* run has returned
Returned == pc = "done"

PhysicalModes == {"concrete_crushing", "rebar_fracture", "tendon_rupture"}

\* C1: a point that is not converged or meets a failure criterion truncates
\* the sweep: every recorded point other than the last is converged and meets
\* no failure criterion.
C1_TruncatedAtFirstBadPoint ==
    \A i \in 1..(NPoints - 1) : Clean(result.points[i])

\* a returned sweep that was cut short after at least two points
C1_Witness ==
    /\ Returned
    /\ NPoints >= 2
    /\ NPoints < Len(phis)
    /\ ~Clean(result.points[NPoints])

\* C2: every converged point is in axial equilibrium within tol_force at the
\* eps_0 and curvature it records.
C2_ConvergedInEquilibrium ==
    \A i \in 1..NPoints :
        LET p == result.points[i]
        IN p.converged =>
             Abs(integrate_forces(self.section, p.eps_0, p.curvature,
                                  self.y_ref)[1] - self.axial_load)
               < self.tol_force

\* a converged point reached by Newton updates, out of equilibrium at eps_0 = 0
C2_Witness ==
    /\ Returned
    /\ \E i \in 1..NPoints :
          LET p == result.points[i]
          IN /\ p.converged
             /\ p.eps_0 # 0
             /\ ~(Abs(integrate_forces(self.section, 0, p.curvature,
                                       self.y_ref)[1] - self.axial_load)
                    < self.tol_force)

\* C3: points are only appended, never changed or removed, and their
\* curvatures are non-decreasing.
C3_AppendOnlyMonotone ==
    [][/\ Len(result'.points) >= NPoints
       /\ SubSeq(result'.points, 1, NPoints) = result.points
       /\ \A i \in 2..Len(result'.points) :
             result'.points[i].curvature >= result'.points[i - 1].curvature]_vars

\* a sweep of three points or more
C3_Witness == NPoints >= 3 /\ Returned

\* every recorded point is converged and meets no failure criterion
AllClean == \A i \in 1..NPoints : Clean(result.points[i])

C5_PhysicalFailureAuthoritative ==
    /\ (NPoints = 0 => result.failure_reason = "")
    /\ NPoints > 0 =>
         LET p == result.points[NPoints]
         IN /\ (~p.converged /\ PhysicalAt(p) # "")
                  => result.failure_reason = PhysicalAt(p)
            /\ result.failure_reason = "convergence_failure"
                  <=> (~p.converged /\ PhysicalAt(p) = "")

\* a sweep ended by a step that neither converged nor stayed below the criteria
C5_Witness ==
    /\ Returned
    /\ NPoints > 0
    /\ ~result.points[NPoints].converged
    /\ PhysicalAt(result.points[NPoints]) # ""

\* C6: failure_reason is always of the fixed taxonomy, is set at most once,
\* and only by the step that ends the sweep.
C6_FailureReasonTaxonomy ==
    [][/\ result'.failure_reason
            \in PhysicalModes \cup {"convergence_failure", ""}
       /\ result'.failure_reason # result.failure_reason
            => /\ result.failure_reason = ""
               /\ pc = "record"
               /\ pc' = "finish"
               /\ Len(result'.points) = NPoints + 1]_vars

\* a sweep of two points or more ended by a tendon rupture
C6_Witness ==
    /\ Returned
    /\ NPoints >= 2
    /\ result.failure_reason = "tendon_rupture"

\* the smallest index (0-based) of a recorded point at which hit(a, eps_0, phi)
\* holds, or None
FirstIndex(hit(_, _, _)) ==
    LET at(i) == hit(self, result.points[i].eps_0, result.points[i].curvature)
    IN IF \E i \in 1..NPoints : at(i)
       THEN Some((CHOOSE i \in 1..NPoints :
                     at(i) /\ \A j \in 1..(i - 1) : ~at(j)) - 1)
       ELSE None

\* cracking_index and yield_index are the first occurrences
FirstOccurrences ==
    /\ result.cracking_index = FirstIndex(check_cracking)
    /\ result.yield_index = FirstIndex(check_yield)

\* C7: cracking_index and yield_index, once set, never change, and each is the
\* smallest index of a recorded point that meets the criterion (None iff no
\* recorded point does).
C7_EventsOneShot ==
    [][/\ result.cracking_index # None
            => result'.cracking_index = result.cracking_index
       /\ result.yield_index # None => result'.yield_index = result.yield_index
       /\ FirstOccurrences']_vars

\* cracking and yield were set at different points before the last one, and
\* both criteria hold again at the last point
C7_Witness ==
    /\ Returned
    /\ result.cracking_index # None
    /\ result.yield_index # None
    /\ result.cracking_index # result.yield_index
    /\ Val(result.cracking_index) < NPoints - 1
    /\ Val(result.yield_index) < NPoints - 1
    /\ check_cracking(self, result.points[NPoints].eps_0,
                      result.points[NPoints].curvature)
    /\ check_yield(self, result.points[NPoints].eps_0,
                   result.points[NPoints].curvature)

\* C8 as stated: only converged steps are scanned for events: the points
\* cracking_index and yield_index refer to are converged, and a physical
\* failure mode is recorded only from a converged step.
C8_EventsOnlyFromConverged ==
    /\ result.cracking_index # None
         => result.points[Val(result.cracking_index) + 1].converged
    /\ result.yield_index # None
         => result.points[Val(result.yield_index) + 1].converged
    /\ result.failure_reason \in PhysicalModes
         => result.points[NPoints].converged

\* the Newton iteration about to run finds the residual out of tolerance and
\* |EA| below the floor
AtStiffnessFloor ==
    /\ pc = "newton"
    /\ iteration < self.max_iter
    /\ ~(Abs(residual) < self.tol_force)
    /\ Abs(EA) < EA_FLOOR

\* C9: on |EA| below the floor the Newton loop is left at once with eps_0 as it
\* is and converged false; the point is then recorded as not converged, the
\* sweep ends at it, and failure_reason is the physical mode if a criterion
\* holds there and "convergence_failure" otherwise.
C9_StiffnessFloorEndsSweep ==
    [][/\ AtStiffnessFloor
            => /\ pc' = "record"
               /\ newton_exit' = "stiffness_lost"
               /\ eps_0' = eps_0
               /\ ~converged'
               /\ result' = result
       /\ (pc = "record" /\ newton_exit = "stiffness_lost")
            => /\ pc' = "finish"
               /\ Len(result'.points) = NPoints + 1
               /\ LET p == result'.points[NPoints + 1]
                  IN /\ ~p.converged
                     /\ p.eps_0 = eps_0
                     /\ p.curvature = phis[i_phi]
                     /\ result'.ultimate_index = Some(NPoints)
                     /\ result'.failure_reason =
                          IF PhysicalAt(p) # "" THEN PhysicalAt(p)
                          ELSE "convergence_failure"]_vars

\* a sweep ended by the stiffness floor at a point that meets no criterion
C9_Witness ==
    /\ Returned
    /\ newton_exit = "stiffness_lost"
    /\ iteration > 0
    /\ result.failure_reason = "convergence_failure"

\* C10 as stated: no recorded point has a curvature above max_curvature.
C10_WithinCurvatureLimit ==
    \A i \in 1..NPoints : result.points[i].curvature <= self.max_curvature

\* C12 as stated: a section without depth is a fatal configuration error: the
\* analysis of a section of height 0 records no point and returns no result.
C12_ZeroDepthIsFatal ==
    height(self.section) = 0 => (NPoints = 0 /\ ~Returned)

\* solve_mcft_node has returned: result holds the MCFTState
NodeReturned == pc = "node_done"

\* C16: free-surface invariant: every returned MCFTState with converged = True
\* has |sigma_y| < tol, sigma_y being the total transverse stress (concrete
\* plus rho_y times the stirrup stress) at the returned eps_y.
C16_FreeSurface ==
    (NodeReturned /\ Val(result).converged) =>
        /\ Abs(Val(result).sigma_y) < self.tol
        /\ Val(result).sigma_y
             = residual_at(self, Val(result).eps_y).sigma_y_total

\* a state returned as converged after at least one Newton step, with
\* stirrups carrying part of the transverse stress
C16_Witness ==
    /\ NodeReturned
    /\ Val(result).converged
    /\ self.gamma_xy # 0
    /\ iteration > 0
    /\ self.rho_y > 0
    /\ Val(result).eps_y # 0

\* C17: uniaxial shortcut: with gamma_xy numerically zero and no smeared
\* longitudinal steel the returned state is the plain material law:
\* sigma_x = concrete.stress(eps_x), tau_xy = 0, sigma_y = 0, converged,
\* tangent_xx = concrete.tangent(eps_x), the other tangents 0.
C17_UniaxialShortcut ==
    (/\ NodeReturned
     /\ Abs(self.gamma_xy) < GAMMA_FLOOR
     /\ ~(self.rho_x > 0 /\ self.long_material # None)) =>
        /\ Val(result).sigma_x = Concrete_stress(self.concrete, self.eps_x)
        /\ Val(result).tau_xy = 0
        /\ Val(result).sigma_y = 0
        /\ Val(result).converged
        /\ Val(result).tangent_xx = Concrete_tangent(self.concrete, self.eps_x)
        /\ Val(result).tangent_xg = 0
        /\ Val(result).tangent_gx = 0
        /\ Val(result).tangent_gg = 0

\* the shortcut has returned the state of a cracked node (eps_x past the
\* cracking strain) without smeared longitudinal steel
C17_Witness ==
    /\ NodeReturned
    /\ self.gamma_xy = 0
    /\ self.rho_x = 0
    /\ self.eps_x > Concrete_ecr(self.concrete)
    /\ Val(result).converged

\* C18 as stated: in the general case eps_y stays within the bound of 0.05
\* after every iteration and in every returned state, whichever branch
\* produced it and whatever the initial guess eps_x / 2.
C18_EpsYBounded ==
    /\ pc \in {"node_loop", "node_final", "node_done"} =>
           Abs(eps_y) <= EPS_Y_BOUND
    /\ NodeReturned => Abs(Val(result).eps_y) <= EPS_Y_BOUND

\* C19: shear-sign symmetry: solving with -gamma_xy returns the opposite
\* tau_xy and the same sigma_x, eps_y and converged flag.
C19_ShearSignSymmetry ==
    NodeReturned =>
        LET r == Val(result)
            m == solve_mcft_node(self.eps_x, -self.gamma_xy, self.concrete,
                                 self.rho_y, self.stirrup_material,
                                 self.rho_x, self.long_material,
                                 self.max_iter, self.tol)
        IN /\ m.tau_xy = -r.tau_xy
           /\ m.sigma_x = r.sigma_x
           /\ m.eps_y = r.eps_y
           /\ m.converged = r.converged

\* a state returned by the general case, after at least one iteration, that
\* carries shear
C19_Witness ==
    /\ NodeReturned
    /\ self.gamma_xy < 0
    /\ iteration > 0
    /\ Val(result).tau_xy < 0
    /\ Val(result).sigma_x # 0

\* C20 as stated: every returned MCFTState has eps_1 >= eps_2, fc1 >= 0 and
\* fc2 <= 0, states with two tensile principal strains included.
C20_PrincipalSigns ==
    NodeReturned =>
        /\ Val(result).eps_1 >= Val(result).eps_2
        /\ Val(result).fc1 >= 0
        /\ Val(result).fc2 <= 0

\* ShearAnalysis.run has returned: result holds the VGammaResult
ShearReturned == pc = "shear_done"

\* ShearAnalysis.run is under way or has returned
InShear ==
    pc \in {"shear_step", "shear_newton", "shear_record", "shear_done"}

\* C13 as stated: every non-converged step ends the V-gamma sweep, the first
\* step at gamma_xy0 = 0 included: in every VGammaResult a point with
\* converged = False is the last point.
C13_NonConvergedIsLast ==
    ShearReturned =>
        \A k \in 1..Len(result.points) :
            ~result.points[k].converged => k = Len(result.points)

\* C14: every V-gamma point with converged = True is in equilibrium at its
\* recorded state: with (N, M, V) = integrate_forces_shear(eps_0, curvature,
\* gamma_xy0), |N - axial_load| < tol_force and |M - moment| < tol_moment, and
\* the recorded moment and shear_force are that M and V.
C14_ConvergedPointInEquilibrium ==
    InShear =>
        \A k \in 1..Len(result.points) :
            result.points[k].converged =>
                LET p == result.points[k]
                    F == integrate_forces_shear(self.section, p.eps_0,
                             p.curvature, p.gamma_xy0, self.y_ref)
                IN /\ Abs(F[1] - self.axial_load) < self.tol_force
                   /\ Abs(F[2] - self.moment) < self.tol_moment
                   /\ p.moment = F[2]
                   /\ p.shear_force = F[3]

\* a returned sweep whose third point converged under shear after Newton
\* updates of both unknowns, with an applied moment
C14_Witness ==
    /\ ShearReturned
    /\ Len(result.points) >= 3
    /\ result.points[3].converged
    /\ result.points[3].shear_force # 0
    /\ result.points[3].eps_0 # 0
    /\ result.points[3].curvature # 0
    /\ self.moment # 0

\* C15: the k-th recorded point (k = 0, 1, ...) has
\* gamma_xy0 = k * gamma_max / n_steps: the first point is at 0, the sequence
\* increases strictly, the result holds at most n_steps + 1 points, and exactly
\* n_steps + 1 points ending at gamma_max when every step converged.
C15_FixedIncrements ==
    InShear =>
        /\ \A k \in 1..Len(result.points) :
               result.points[k].gamma_xy0 * self.n_steps
                 = (k - 1) * self.gamma_max
        /\ \A k \in 2..Len(result.points) :
               result.points[k - 1].gamma_xy0 < result.points[k].gamma_xy0
        /\ Len(result.points) <= self.n_steps + 1
        /\ (/\ ShearReturned
            /\ \A k \in 1..Len(result.points) : result.points[k].converged) =>
               /\ Len(result.points) = self.n_steps + 1
               /\ result.points[Len(result.points)].gamma_xy0 = self.gamma_max

\* a returned sweep of three increments, every step of which converged
C15_Witness ==
    /\ ShearReturned
    /\ self.n_steps = 3
    /\ Len(result.points) = 4
    /\ \A k \in 1..4 : result.points[k].converged
    /\ result.points[4].shear_force # 0

\* MomentCurvatureAnalysis.run is under way or has returned
InMPhi == pc \in {"build", "newton", "record", "finish", "done"}

\* solve_mcft_node is under way or has returned
InNode == pc \in {"node_call", "node_loop", "node_final", "node_done"}

\* the loops of ShearAnalysis.run and solve_mcft_node stay within their caps,
\* and a cap that was exceeded shows as converged = False in what is returned
ShearAndNodeBounded ==
    /\ InShear =>
          /\ step <= self.n_steps + 1
          /\ Len(result.points) <= self.n_steps + 1
          /\ iteration <= self.max_iter
          /\ (ShearReturned /\ newton_exit = "max_iter") =>
                ~result.points[Len(result.points)].converged
    /\ InNode =>
          /\ iteration <= self.max_iter
          /\ (NodeReturned /\ self.gamma_xy # 0 /\ iteration = self.max_iter) =>
                ~Val(result).converged

\* the Newton loop of MomentCurvatureAnalysis.run stays within max_iter, and
\* an exceeded cap shows as converged = False in the last point
MPhiIterationsBounded ==
    InMPhi =>
        /\ iteration <= self.max_iter
        /\ (Returned /\ newton_exit = "max_iter") =>
              ~result.points[NPoints].converged

\* C11 as stated: every solver loop is bounded and ends in a returned result:
\* MomentCurvatureAnalysis.run performs at most n_steps steps of at most
\* max_iter iterations, ShearAnalysis.run at most n_steps + 1 steps of at most
\* max_iter iterations, solve_mcft_node at most max_iter iterations; an
\* exceeded cap ends in a returned result with converged = False.
C11_LoopsBounded ==
    /\ ShearAndNodeBounded
    /\ MPhiIterationsBounded
    /\ pc \in {"newton", "record", "finish", "done"} =>
          (i_phi <= self.n_steps /\ NPoints <= self.n_steps)
    /\ pc # "shear_raised"

\* the last point of the M-phi result
LastPoint == result.points[NPoints]

\* C25: warm start of the M-phi sweep: the Newton iteration of the first step
\* starts from eps_0 = 0, that of every later step from the eps_0 recorded in
\* the preceding point, which is a converged point that meets no failure
\* criterion.
C25_WarmStart ==
    (pc = "newton" /\ iteration = 0) =>
        IF NPoints = 0 THEN eps_0 = 0
        ELSE /\ eps_0 = LastPoint.eps_0
             /\ LastPoint.converged
             /\ check_failure(self, LastPoint.eps_0, LastPoint.curvature) = ""

\* the Newton iteration of the third step is about to start from a non-zero
\* eps_0
C25_Witness ==
    /\ pc = "newton"
    /\ iteration = 0
    /\ NPoints = 2
    /\ eps_0 # 0

C28_IndexInvariants ==
    Returned =>
        /\ NPoints > 0 => result.ultimate_index = Some(NPoints - 1)
        /\ result.cracking_index # None =>
              /\ result.ultimate_index # None
              /\ 0 <= Val(result.cracking_index)
              /\ Val(result.cracking_index) <= Val(result.ultimate_index)
        /\ result.yield_index # None =>
              /\ result.ultimate_index # None
              /\ 0 <= Val(result.yield_index)
              /\ Val(result.yield_index) <= Val(result.ultimate_index)
        /\ NPoints < Len(phis) => result.failure_reason # ""

\* a returned sweep that was cut short, with both events detected
C28_Witness ==
    /\ Returned
    /\ 1 < NPoints
    /\ NPoints < Len(phis)
    /\ result.cracking_index # None
    /\ result.yield_index # None

\* eps_0 and phi at the start of the current shear step: those of the
\* preceding point, zero at the first step
eps_0_at_step_start == IF NPoints = 0 THEN 0 ELSE LastPoint.eps_0

phi_at_step_start == IF NPoints = 0 THEN 0 ELSE LastPoint.curvature

\* C26: the Newton update of ShearAnalysis.run is step-limited: an iteration
\* changes eps_0 by at most 0.001 and phi by at most 1e-4, so within one shear
\* step the iterate is at most iteration * 0.001 (iteration * 1e-4) away from
\* the values the step started from, and an iteration whose determinant is
\* below the floor changes neither.
C26_StepLimited ==
    [][pc = "shear_newton" =>
          /\ Abs(eps_0' - eps_0) <= MAX_DE
          /\ Abs(curvature' - curvature) <= MAX_DP
          /\ iteration' <= self.max_iter
          /\ Abs(eps_0' - eps_0_at_step_start) <= iteration' * MAX_DE
          /\ Abs(curvature' - phi_at_step_start) <= iteration' * MAX_DP
          /\ newton_exit' = "singular" =>
                eps_0' = eps_0 /\ curvature' = curvature]_vars

\* after two Newton iterations eps_0 is more than one limited step away from
\* the value the step started from
C26_Witness ==
    /\ pc = "shear_newton"
    /\ iteration = 2
    /\ Abs(eps_0 - eps_0_at_step_start) > MAX_DE

\* C29 as stated: every V-gamma point, converged or not, is self-consistent:
\* its shear_force and moment are the V and M that integrate_forces_shear
\* gives at exactly the eps_0, curvature and gamma_xy0 stored in the point, in
\* particular in a point whose step ran out of iterations.
C29_PointSelfConsistent ==
    InShear =>
        \A k \in 1..Len(result.points) :
            LET p == result.points[k]
                F == integrate_forces_shear(self.section, p.eps_0,
                         p.curvature, p.gamma_xy0, self.y_ref)
            IN p.moment = F[2] /\ p.shear_force = F[3]

\* C30 as stated: a V-gamma point is flagged converged = True only if the
\* solve_mcft_node call of every concrete layer at that point returned
\* converged = True.
C30_ConvergedNodes ==
    InShear =>
        \A k \in 1..Len(result.points) :
            result.points[k].converged =>
                \A j \in 1..Len(self.section.concrete_layers) :
                    layer_state(self.section.concrete_layers[j],
                                result.points[k].eps_0,
                                result.points[k].curvature,
                                result.points[k].gamma_xy0, self.y_ref,
                                y_bottom(self.section),
                                y_top(self.section)).converged

\* C21: compute_shear_stress_distribution on a singular tangent: when the
\* determinant of the assembled 3x3 Jacobian is below the floor, the call
\* returns one ShearStressPoint per concrete layer, at the layer's y_mid, with
\* tau = 0 and delta_q = 0; for a section without concrete layers it returns
\* the empty list.
C21_SingularGivesZeroProfile ==
    pc = "lsm_done" =>
        IF self.section.concrete_layers = << >> THEN Val(result) = << >>
        ELSE Abs(det3(J_of_section(self.section, self.eps_0, self.phi,
                                   self.gamma_xy0, self.y_ref))) < DET3_FLOOR
             => /\ Len(Val(result)) = Len(self.section.concrete_layers)
                /\ \A i \in 1..Len(Val(result)) :
                      /\ Val(result)[i].y = y_mid(self.section.concrete_layers[i])
                      /\ Val(result)[i].tau = Zero
                      /\ Val(result)[i].delta_q = Zero

\* the call has returned on a section with layers under shear whose Jacobian
\* is singular
C21_Witness ==
    /\ pc = "lsm_done"
    /\ self.section.concrete_layers # << >>
    /\ self.gamma_xy0 # 0
    /\ det3(J_of_section(self.section, self.eps_0, self.phi, self.gamma_xy0,
                         self.y_ref)) = 0

\* C22: with gamma_xy0 = 0 the biaxial integrator reduces to the uniaxial
\* one: integrate_forces_shear(eps_0, phi, 0, y_ref) returns V = 0 and the N
\* and M of integrate_forces(eps_0, phi, y_ref).
C22_ZeroShearReduces ==
    pc = "forces_done" =>
        Val(result).biaxial
          = << Val(result).uniaxial[1], Val(result).uniaxial[2], 0 >>

\* both integrators have returned for a section with stirrups at zero shear,
\* with a cracked layer, a non-zero axial force and a non-zero moment
C22_Witness ==
    /\ pc = "forces_done"
    /\ self.gamma_xy0 = 0
    /\ self.section = StirrupSection
    /\ self.eps_0 = 5
    /\ Val(result).uniaxial[1] # 0
    /\ Val(result).uniaxial[2] # 0

\* C23 as stated: shear_strain_profile gives 1.5 at mid-depth and 0 at
\* y = y_bot and at y = y_top for any section depth y_top - y_bot.
C23_AnyDepth ==
    pc = "profile_done" =>
        /\ 2 * self.y = self.y_bot + self.y_top =>
              2 * Val(result).num = 3 * Val(result).den
        /\ self.y \in {self.y_bot, self.y_top} => Val(result).num = 0

\* C23: for every positive section depth, shear_strain_profile gives 1.5 at
\* mid-depth and 0 at y = y_bot and at y = y_top, and the same value at equal
\* distances from mid-depth; for a depth y_top - y_bot <= 0 it gives 1.0 at
\* every y.
C23_Parabola ==
    pc = "profile_done" =>
        IF self.y_top - self.y_bot > 0
        THEN /\ 2 * self.y = self.y_bot + self.y_top =>
                   2 * Val(result).num = 3 * Val(result).den
             /\ self.y \in {self.y_bot, self.y_top} => Val(result).num = 0
             /\ Val(result)
                  = shear_strain_profile(self.y_bot + self.y_top - self.y,
                                         self.y_bot, self.y_top)
        ELSE Val(result).num = Val(result).den

\* the profile has been evaluated at the top of a section with depth
C23_Witness ==
    /\ pc = "profile_done"
    /\ self.y_top - self.y_bot > 0
    /\ self.y = self.y_top

====
